---- MODULE Spec2Model ----
(***************************************************************************)
(* A model of the Home Assistant -> BookStack exporter:                    *)
(*   custom_components/bookstack_integration/bookstack_api.py  (the client)*)
(*   custom_components/bookstack_integration/__init__.py (the orchestrator)*)
(*                                                                         *)
(* Strings the code inspects (names, keywords, filters) are sequences of   *)
(* one-character strings, so that str.lower() and `in` are computed.       *)
(* Python's None is the empty sequence <<>> and a present value x is <<x>>.*)
(* Times are in units of 100 ms.                                           *)
(***************************************************************************)
EXTENDS Integers, Sequences, FiniteSets, TLC

VARIABLES
    \* ---- the remote BookStack instance (ids are positions: nothing is deleted)
    shelves,            \* sequence of [id, name]
    books,              \* sequence of [id, name]
    chapters,           \* sequence of [id, book_id, name]
    pages,              \* sequence of [id, chapter_id, name, markdown]
    shelf_books,        \* shelf id -> the list of book ids last PUT on it
    \* ---- one BookStackClient instance
    book_cache,         \* self._book_cache: <<>> or <<book>>
    chapter_cache,      \* self._chapter_cache: <<book_id, lowered name>> -> chapter
    page_cache,         \* self._page_cache: <<chapter_id, lowered name>> -> page
    call,               \* the client operation just executed, with its requests
    last,               \* what the caller remembers of the call before
    focus,              \* the kind of resource the calls of this run are about
    \* ---- the rate limiter of _make_request
    now,                \* time.time()
    last_request_time,  \* self._last_request_time
    prev_start,         \* start of the latest outbound request, <<>> before any
    gap,                \* <<start - previous start>> of the latest request
    \* ---- _handle_response taken alone
    response,           \* <<status code>> of the response last handled
    handled,            \* what _handle_response did with it
    \* ---- Home Assistant and one handle_export invocation
    config_entries,     \* hass.config_entries.async_entries(DOMAIN)
    area_registry,      \* sequence of [id, name]
    device_registry,    \* sequence of [id, area_id]
    states,             \* hass.states: sequence of [entity_id, area_id]
    flow,               \* the config flow in progress: its step, form and _data
    hass_data,          \* hass.data: <<>> or <<the dict under DOMAIN>>
    returned,           \* what the latest setup or unload handler returned
    services,           \* hass.services: the services registered
    race,               \* two handle_export invocations in flight at once
    pc,                 \* position of handle_export
    run,                \* export invocations started so far
    ex                  \* the locals of handle_export and its log

remote_vars == <<shelves, books, chapters, pages, shelf_books>>
client_vars == <<book_cache, chapter_cache, page_cache, call, last, focus>>
rate_vars   == <<now, last_request_time, prev_start, gap>>
resp_vars   == <<response, handled>>
hass_vars   == <<config_entries, area_registry, device_registry, states, flow,
                 hass_data, returned, services, race>>
export_vars == <<hass_vars, pc, run, ex>>
vars == <<remote_vars, client_vars, rate_vars, resp_vars, export_vars>>

----------------------------------------------------------------------------
(* Strings                                                                 *)

UpperChars == <<"A","B","C","D","E","F","G","H","I","J","K","L","M",
                "N","O","P","Q","R","S","T","U","V","W","X","Y","Z">>
LowerChars == <<"a","b","c","d","e","f","g","h","i","j","k","l","m",
                "n","o","p","q","r","s","t","u","v","w","x","y","z">>

\* the lower-case form of each upper-case letter
LowerOf ==
    [c \in {UpperChars[i] : i \in 1..Len(UpperChars)} |->
        LowerChars[CHOOSE i \in 1..Len(UpperChars) : UpperChars[i] = c]]

LowerChar(c) == IF c \in DOMAIN LowerOf THEN LowerOf[c] ELSE c

\* str.lower()
Lower(s) == [i \in 1..Len(s) |-> LowerChar(s[i])]

\* `sub in s` for strings
Contains(sub, s) ==
    \E k \in 0..(Len(s) - Len(sub)) :
        \A i \in 1..Len(sub) : s[k + i] = sub[i]

None == <<>>
Some(x) == <<x>>

----------------------------------------------------------------------------
(* Errors: BookStackError and its subclasses                               *)

\* status_code=None of BookStackError.__init__ (no HTTP status is 0)
NoStatusCode == 0

Error(type, status_code) == [type |-> type, status_code |-> status_code]
NoError == Error("", NoStatusCode)

\* `except BookStackError` catches the base class and its three subclasses
IsBookStackError(e) ==
    e.type \in {"BookStackError", "BookStackNotFoundError",
                "BookStackAuthError", "BookStackRateLimitError"}

----------------------------------------------------------------------------
(* The remote: what BookStack does with a request that reaches it.         *)
(* A listing answers the whole collection, in creation order; the client   *)
(* does its own name matching on what is returned.                         *)

\* a request: the method, the endpoint, the id in its path (0: none), the JSON body
Request(method, endpoint, id, payload) ==
    [method |-> method, endpoint |-> endpoint, id |-> id, payload |-> payload]

NoPayload == [search |-> <<>>]

\* The fields of an entity the client keeps and reads: its ids and its name.
\* (The optional fields of Book, Chapter, Page and Shelf are never read.)
Entity(x) == [f \in DOMAIN x \ {"markdown", "description"} |-> x[f]]
Entities(items) == [i \in 1..Len(items) |-> Entity(items[i])]

\* a body that is not JSON
NotJson == [text |-> "<html>"]

ListBody(items) == [data |-> Entities(items), entity |-> None]
EntityBody(e)   == [data |-> <<>>, entity |-> Some(Entity(e))]

OfBook(w, book_id)       == SelectSeq(w.chapters, LAMBDA c : c.book_id = book_id)
OfChapter(w, chapter_id) == SelectSeq(w.pages, LAMBDA p : p.chapter_id = chapter_id)

Serve(w, req) ==
    CASE req.method = "GET" /\ req.endpoint = "/api/shelves" ->
            [w |-> w, body |-> ListBody(w.shelves)]
      [] req.method = "POST" /\ req.endpoint = "/api/shelves" ->
            LET s == [id |-> Len(w.shelves) + 1, name |-> req.payload.name]
            IN  [w |-> [w EXCEPT !.shelves = Append(@, s),
                                 !.shelf_books = Append(@, <<>>)],
                 body |-> EntityBody(s)]
      [] req.method = "PUT" /\ req.endpoint = "/api/shelves/{id}/books" ->
            [w |-> [w EXCEPT !.shelf_books[req.id] = req.payload.books],
             body |-> EntityBody(w.shelves[req.id])]
      [] req.method = "GET" /\ req.endpoint = "/api/books" ->
            [w |-> w, body |-> ListBody(w.books)]
      [] req.method = "POST" /\ req.endpoint = "/api/books" ->
            LET b == [id |-> Len(w.books) + 1, name |-> req.payload.name]
            IN  [w |-> [w EXCEPT !.books = Append(@, b)], body |-> EntityBody(b)]
      [] req.method = "GET" /\ req.endpoint = "/api/books/{id}/chapters" ->
            [w |-> w, body |-> ListBody(OfBook(w, req.id))]
      [] req.method = "POST" /\ req.endpoint = "/api/chapters" ->
            LET c == [id |-> Len(w.chapters) + 1, book_id |-> req.payload.book_id,
                      name |-> req.payload.name,
                      description |-> req.payload.description]
            IN  [w |-> [w EXCEPT !.chapters = Append(@, c)], body |-> EntityBody(c)]
      [] req.method = "GET" /\ req.endpoint = "/api/chapters/{id}/pages" ->
            [w |-> w, body |-> ListBody(OfChapter(w, req.id))]
      [] req.method = "POST" /\ req.endpoint = "/api/chapters/{id}/pages" ->
            LET p == [id |-> Len(w.pages) + 1, chapter_id |-> req.id,
                      name |-> req.payload.title,
                      markdown |-> req.payload.markdown]
            IN  [w |-> [w EXCEPT !.pages = Append(@, p)], body |-> EntityBody(p)]
      [] req.method = "PUT" /\ req.endpoint = "/api/pages/{id}" ->
            LET p == [w.pages[req.id] EXCEPT !.name = req.payload.title,
                                             !.markdown = req.payload.markdown]
            IN  [w |-> [w EXCEPT !.pages[req.id] = p], body |-> EntityBody(p)]

\* What can happen to one request: a response with a status code, no
\* connection at all ("refused"), or a timeout after the server acted ("lost").
Answer(status) == [net |-> "response", status |-> status]
Refused        == [net |-> "refused",  status |-> NoStatusCode]
Lost           == [net |-> "lost",     status |-> NoStatusCode]

Is2xx(status) == status \in 200..299

\* the server carried the request out
Applied(o) == o.net = "lost" \/ (o.net = "response" /\ Is2xx(o.status))

----------------------------------------------------------------------------
(* BookStackClient                                                         *)

\* One entry of the log of a call's outbound requests.
Sent(req, o) ==
    [method |-> req.method, endpoint |-> req.endpoint, id |-> req.id,
     net |-> o.net, status |-> o.status]

\* `x = <expression>` followed by the statements F that read x: the
\* expression is evaluated once
Bind(x, F(_)) == CHOOSE y \in {F(v) : v \in {x}} : TRUE

\* _make_request without its pacing (see MakeRequestTiming): the request
\* goes out, and either a response comes back or requests raises and the
\* client raises BookStackError("Network error: ...") with no status code.
_make_request(w, req) ==
    Bind(Head(w.script), LAMBDA o :
    Bind([w EXCEPT !.script = Tail(@), !.reqs = Append(@, Sent(req, o))], LAMBDA w1 :
    Bind(IF Applied(o) THEN Serve(w1, req)
         ELSE [w |-> w1, body |-> ListBody(<<>>)], LAMBDA sv :
        IF o.net = "response"
        THEN [w |-> sv.w, raised |-> FALSE, err |-> NoError,
              response |-> [status_code |-> o.status, body |-> sv.body]]
        ELSE IF o.net = "garbled"
        THEN [w |-> sv.w, raised |-> FALSE, err |-> NoError,
              response |-> [status_code |-> o.status, body |-> NotJson]]
        ELSE [w |-> sv.w, raised |-> TRUE,
              err |-> Error("BookStackError", NoStatusCode),
              response |-> [status_code |-> NoStatusCode,
                            body |-> ListBody(<<>>)]])))

\* response.json() of a body that is not JSON raises ValueError
Json(resp) ==
    IF "text" \in DOMAIN resp.body
    THEN [ok |-> FALSE, data |-> ListBody(<<>>),
          err |-> Error("ValueError", NoStatusCode)]
    ELSE [ok |-> TRUE, data |-> resp.body, err |-> NoError]

_handle_response(resp) ==
    IF resp.status_code = 200
    THEN Json(resp)
    ELSE IF resp.status_code = 201
    THEN Json(resp)
    ELSE IF resp.status_code = 401
    THEN [ok |-> FALSE, data |-> ListBody(<<>>),
          err |-> Error("BookStackAuthError", resp.status_code)]
    ELSE IF resp.status_code = 404
    THEN [ok |-> FALSE, data |-> ListBody(<<>>),
          err |-> Error("BookStackNotFoundError", resp.status_code)]
    ELSE IF resp.status_code = 429
    THEN [ok |-> FALSE, data |-> ListBody(<<>>),
          err |-> Error("BookStackRateLimitError", resp.status_code)]
    ELSE [ok |-> FALSE, data |-> ListBody(<<>>),
          err |-> Error("BookStackError", resp.status_code)]

\* `response = self._make_request(...)` followed by
\* `data = self._handle_response(response)`, as every operation does
Fetch(w, req) ==
    Bind(_make_request(w, req), LAMBDA r :
        IF r.raised
        THEN [w |-> r.w, ok |-> FALSE, data |-> ListBody(<<>>), err |-> r.err]
        ELSE Bind(_handle_response(r.response), LAMBDA h :
             [w |-> r.w, ok |-> h.ok, data |-> h.data, err |-> h.err]))

\* what an operation hands back: a return value or a raised exception
Return(w, v) == [w |-> w, ok |-> TRUE,  val |-> v,    err |-> NoError]
Raise(w, e)  == [w |-> w, ok |-> FALSE, val |-> None, err |-> e]

\* `raise BookStackError(f"Failed to ...: {e}")`: a new base-class error,
\* built from the message alone
Wrapped(e) == Error("BookStackError", NoStatusCode)

\* A mutant of FirstMatch: the last matching entry wins.
LastMatch(data, name) ==
    Bind(SelectSeq(data, LAMBDA d : Lower(d.name) = Lower(name)), LAMBDA hits :
        IF hits = <<>> THEN None ELSE Some(hits[Len(hits)]))

\* `for x in data.get("data", []): if x["name"].lower() == name.lower(): return X(**x)`
\* and `return None` after the loop
RECURSIVE FirstMatch(_, _)
FirstMatch(data, name) ==
    IF data = <<>> THEN None
    ELSE IF Lower(Head(data).name) = Lower(name) THEN Some(Head(data))
    ELSE FirstMatch(Tail(data), name)

\* dict assignment `cache[key] = value`
Put(cache, key, value) ==
    [k \in DOMAIN cache \cup {key} |-> IF k = key THEN value ELSE cache[k]]

\* ---- books

find_book(w, name) ==
    Bind(Fetch(w, Request("GET", "/api/books", 0, [search |-> name])), LAMBDA f :
        IF f.ok THEN Return(f.w, FirstMatch(f.data.data, name))
        ELSE Raise(f.w, Wrapped(f.err)))

create_book(w, name, description) ==
    Bind(Fetch(w, Request("POST", "/api/books", 0,
                          [name |-> name, description |-> description])), LAMBDA f :
        IF f.ok THEN Return(f.w, f.data.entity)
        ELSE Raise(f.w, f.err))

\* A mutant of assign_book_to_shelf: the error is not caught.
AssignRaising(w, book_id, shelf_id) ==
    Bind(Fetch(w, Request("PUT", "/api/shelves/{id}/books", shelf_id,
                          [books |-> <<book_id>>])), LAMBDA f :
        IF f.ok THEN Return(f.w, Some(TRUE))
        ELSE Raise(f.w, f.err))

assign_book_to_shelf(w, book_id, shelf_id) ==
    Bind(Fetch(w, Request("PUT", "/api/shelves/{id}/books", shelf_id,
                          [books |-> <<book_id>>])), LAMBDA f :
        IF f.ok THEN Return(f.w, Some(TRUE))
        ELSE Return(f.w, Some(FALSE)))

\* A mutant of find_or_create_book: the cached name is compared as written.
FindOrCreateBookExactCase(w, name, description) ==
    IF w.book_cache # None /\ w.book_cache[1].name = name
    THEN Return(w, w.book_cache)
    ELSE Bind(find_book(w, name), LAMBDA found :
         IF ~found.ok THEN found
         ELSE IF found.val # None
         THEN Return([found.w EXCEPT !.book_cache = found.val], found.val)
         ELSE Bind(create_book(found.w, name, description), LAMBDA made :
              IF ~made.ok THEN made
              ELSE Return([made.w EXCEPT !.book_cache = made.val], made.val)))

find_or_create_book(w, name, description) ==
    IF w.book_cache # None /\ Lower(w.book_cache[1].name) = Lower(name)
    THEN Return(w, w.book_cache)
    ELSE Bind(find_book(w, name), LAMBDA found :
         IF ~found.ok THEN found
         ELSE IF found.val # None
         THEN Return([found.w EXCEPT !.book_cache = found.val], found.val)
         ELSE Bind(create_book(found.w, name, description), LAMBDA made :
              IF ~made.ok THEN made
              ELSE Return([made.w EXCEPT !.book_cache = made.val], made.val)))

\* ---- chapters

\* A mutant of find_chapter: a 404 is an error like any other.
FindChapter404Raises(w, book_id, name) ==
    LET cache_key == <<book_id, Lower(name)>>
    IN  IF cache_key \in DOMAIN w.chapter_cache
        THEN Return(w, Some(w.chapter_cache[cache_key]))
        ELSE Bind(Fetch(w, Request("GET", "/api/books/{id}/chapters",
                                   book_id, NoPayload)), LAMBDA f :
             IF f.ok
             THEN Bind(FirstMatch(f.data.data, name), LAMBDA chapter :
                  IF chapter # None
                  THEN Return([f.w EXCEPT !.chapter_cache =
                                   Put(@, cache_key, chapter[1])], chapter)
                  ELSE Return(f.w, None))
             ELSE Raise(f.w, Wrapped(f.err)))

find_chapter(w, book_id, name) ==
    LET cache_key == <<book_id, Lower(name)>>
    IN  IF cache_key \in DOMAIN w.chapter_cache
        THEN Return(w, Some(w.chapter_cache[cache_key]))
        ELSE Bind(Fetch(w, Request("GET", "/api/books/{id}/chapters",
                                   book_id, NoPayload)), LAMBDA f :
             IF f.ok
             THEN Bind(FirstMatch(f.data.data, name), LAMBDA chapter :
                  IF chapter # None
                  THEN Return([f.w EXCEPT !.chapter_cache =
                                   Put(@, cache_key, chapter[1])], chapter)
                  ELSE Return(f.w, None))
             ELSE IF f.err.type = "BookStackNotFoundError"
             THEN Return(f.w, None)
             ELSE Raise(f.w, Wrapped(f.err)))

create_chapter(w, book_id, name, description) ==
    Bind(Fetch(w, Request("POST", "/api/chapters", 0,
                          [name |-> name, description |-> description,
                           book_id |-> book_id])), LAMBDA f :
        IF f.ok THEN Return(f.w, f.data.entity)
        ELSE Raise(f.w, f.err))

\* A mutant of find_or_create_chapter: the created chapter is not cached.
FindOrCreateChapterUncached(w, book_id, name, description) ==
    LET cache_key == <<book_id, Lower(name)>>
    IN  IF cache_key \in DOMAIN w.chapter_cache
        THEN Return(w, Some(w.chapter_cache[cache_key]))
        ELSE Bind(find_chapter(w, book_id, name), LAMBDA found :
             IF ~found.ok THEN found
             ELSE IF found.val # None
             THEN Return([found.w EXCEPT !.chapter_cache =
                              Put(@, cache_key, found.val[1])], found.val)
             ELSE create_chapter(found.w, book_id, name, description))

find_or_create_chapter(w, book_id, name, description) ==
    LET cache_key == <<book_id, Lower(name)>>
    IN  IF cache_key \in DOMAIN w.chapter_cache
        THEN Return(w, Some(w.chapter_cache[cache_key]))
        ELSE Bind(find_chapter(w, book_id, name), LAMBDA found :
             IF ~found.ok THEN found
             ELSE IF found.val # None
             THEN Return([found.w EXCEPT !.chapter_cache =
                              Put(@, cache_key, found.val[1])], found.val)
             ELSE Bind(create_chapter(found.w, book_id, name, description),
                       LAMBDA made :
                  IF ~made.ok THEN made
                  ELSE Return([made.w EXCEPT !.chapter_cache =
                                   Put(@, cache_key, made.val[1])], made.val)))

\* ---- pages

find_page(w, chapter_id, name) ==
    LET cache_key == <<chapter_id, Lower(name)>>
    IN  IF cache_key \in DOMAIN w.page_cache
        THEN Return(w, Some(w.page_cache[cache_key]))
        ELSE Bind(Fetch(w, Request("GET", "/api/chapters/{id}/pages",
                                   chapter_id, NoPayload)), LAMBDA f :
             IF f.ok
             THEN Bind(FirstMatch(f.data.data, name), LAMBDA page :
                  IF page # None
                  THEN Return([f.w EXCEPT !.page_cache =
                                   Put(@, cache_key, page[1])], page)
                  ELSE Return(f.w, None))
             ELSE Raise(f.w, Wrapped(f.err)))

create_page(w, chapter_id, name, markdown_content) ==
    Bind(Fetch(w, Request("POST", "/api/chapters/{id}/pages", chapter_id,
                          [title |-> name, markdown |-> markdown_content])),
         LAMBDA f :
        IF f.ok THEN Return(f.w, f.data.entity)
        ELSE Raise(f.w, f.err))

update_page(w, page_id, name, markdown_content) ==
    Bind(Fetch(w, Request("PUT", "/api/pages/{id}", page_id,
                          [title |-> name, markdown |-> markdown_content])),
         LAMBDA f :
        IF f.ok THEN Return(f.w, f.data.entity)
        ELSE Raise(f.w, f.err))

\* A mutant of create_or_update_page: it always creates.
CreatePageAlways(w, chapter_id, name, markdown_content) ==
    LET cache_key == <<chapter_id, Lower(name)>>
    IN  Bind(find_page(w, chapter_id, name), LAMBDA existing_page :
        IF ~existing_page.ok THEN existing_page
        ELSE Bind(create_page(existing_page.w, chapter_id, name,
                              markdown_content), LAMBDA page :
             IF ~page.ok THEN page
             ELSE Return([page.w EXCEPT !.page_cache =
                              Put(@, cache_key, page.val[1])], page.val)))

create_or_update_page(w, chapter_id, name, markdown_content) ==
    LET cache_key == <<chapter_id, Lower(name)>>
    IN  Bind(find_page(w, chapter_id, name), LAMBDA existing_page :
        IF ~existing_page.ok THEN existing_page
        ELSE Bind(IF existing_page.val # None
                  THEN update_page(existing_page.w, existing_page.val[1].id,
                                   name, markdown_content)
                  ELSE create_page(existing_page.w, chapter_id, name,
                                   markdown_content), LAMBDA page :
             IF ~page.ok THEN page
             ELSE Return([page.w EXCEPT !.page_cache =
                              Put(@, cache_key, page.val[1])], page.val)))

\* A mutant of clear_cache: the chapter cache is kept.
ClearBookAndPageCache(w) ==
    Return([w EXCEPT !.book_cache = None, !.page_cache = <<>>], None)

clear_cache(w) ==
    Return([w EXCEPT !.book_cache = None,
                     !.chapter_cache = <<>>,
                     !.page_cache = <<>>], None)

\* ---- shelves

get_shelves(w) ==
    Bind(Fetch(w, Request("GET", "/api/shelves", 0, NoPayload)), LAMBDA f :
        IF f.ok THEN Return(f.w, Some(f.data.data))
        ELSE Raise(f.w, Wrapped(f.err)))

find_shelf(w, name) ==
    Bind(Fetch(w, Request("GET", "/api/shelves", 0, [search |-> name])), LAMBDA f :
        IF f.ok THEN Return(f.w, FirstMatch(f.data.data, name))
        ELSE Raise(f.w, Wrapped(f.err)))

create_shelf(w, name, description) ==
    Bind(Fetch(w, Request("POST", "/api/shelves", 0,
                          [name |-> name, description |-> description])), LAMBDA f :
        IF f.ok THEN Return(f.w, f.data.entity)
        ELSE Raise(f.w, f.err))

\* A mutant of find_or_create_shelf: a failed search counts as no match.
CreateShelfAfterFailedFind(w, name, description) ==
    Bind(find_shelf(w, name), LAMBDA shelf :
        IF shelf.ok /\ shelf.val # None THEN shelf
        ELSE create_shelf(shelf.w, name, description))

\* A mutant of find_or_create_shelf: it does not look before it creates.
CreateShelfAlways(w, name, description) ==
    create_shelf(w, name, description)

find_or_create_shelf(w, name, description) ==
    Bind(find_shelf(w, name), LAMBDA shelf :
        IF ~shelf.ok THEN shelf
        ELSE IF shelf.val # None THEN shelf
        ELSE create_shelf(shelf.w, name, description))

AreasName == <<"A","r","e","a","s">>
AreasDescription == "Home Assistant device and entity documentation organized by physical areas"

find_or_create_areas_book(w) ==
    Bind(find_book(w, AreasName), LAMBDA areas_book :
        IF ~areas_book.ok THEN areas_book
        ELSE IF areas_book.val # None THEN areas_book
        ELSE create_book(areas_book.w, AreasName, AreasDescription))

----------------------------------------------------------------------------
(* The client driven call by call: any operation, any arguments, any       *)
(* answer of the remote to each request.  A run is about one kind of       *)
(* resource (focus): the kinds share nothing in the client but ids.        *)

\* how many entries of the kind in focus the remote may come to hold
MaxEntries == 2

DenName == <<"D","e","n">>
Names == { AreasName, Lower(AreasName), DenName }
Contents == {"v1", "v2"}

\* the status codes the remote answers with in Spec and ExportSpec
Statuses == {200, 401, 404, 429}
Outcomes == {Answer(s) : s \in Statuses} \cup {Refused, Lost}
\* the answers to the requests of one call, in order
Script(n) == [1..n -> Outcomes]

World(script) ==
    [shelves |-> shelves, books |-> books, chapters |-> chapters,
     pages |-> pages, shelf_books |-> shelf_books,
     book_cache |-> book_cache, chapter_cache |-> chapter_cache,
     page_cache |-> page_cache, script |-> script, reqs |-> <<>>]

\* what a call is about: a name in a collection of the remote
Target(kind, parent, name) == [kind |-> kind, parent |-> parent, name |-> name]
NoTarget == Target("none", 0, <<>>)

Collection(w, t) ==
    CASE t.kind = "shelf"   -> w.shelves
      [] t.kind = "book"    -> w.books
      [] t.kind = "chapter" -> OfBook(w, t.parent)
      [] t.kind = "page"    -> OfChapter(w, t.parent)
      [] OTHER              -> <<>>

\* the entries of the target's collection bearing its name, ignoring case
Matching(w, t) ==
    SelectSeq(Collection(w, t), LAMBDA x : Lower(x.name) = Lower(t.name))

\* whether the client's cache holds an entry under the target's name
Cached(w, t) ==
    CASE t.kind = "book"    -> /\ w.book_cache # None
                               /\ Lower(w.book_cache[1].name) = Lower(t.name)
      [] t.kind = "chapter" -> <<t.parent, Lower(t.name)>> \in DOMAIN w.chapter_cache
      [] t.kind = "page"    -> <<t.parent, Lower(t.name)>> \in DOMAIN w.page_cache
      [] OTHER              -> FALSE

NoCall ==
    [op |-> "", args |-> <<>>, target |-> NoTarget, ok |-> TRUE, val |-> None,
     err |-> NoError, reqs |-> <<>>, before |-> 0, cached |-> FALSE,
     repeat |-> FALSE]
NoLast == [op |-> "", args |-> <<>>]

\* The call `op(args)` runs from the current state and ends as r.
\* before: how many entries bore the target's name when the call started.
\* cached: whether the cache held an entry under that name then.
\* repeat: the call before this one was the same call, it returned normally,
\*         and neither the remote nor the cache held an entry of that name
\*         when it started.
Do(op, args, target, result) ==
    /\ call = NoCall
    /\ \E r \in {result} :
        /\ shelves' = r.w.shelves
        /\ books' = r.w.books
        /\ chapters' = r.w.chapters
        /\ pages' = r.w.pages
        /\ shelf_books' = r.w.shelf_books
        /\ book_cache' = r.w.book_cache
        /\ chapter_cache' = r.w.chapter_cache
        /\ page_cache' = r.w.page_cache
        /\ call' = [op |-> op, args |-> args, target |-> target,
                    ok |-> r.ok, val |-> r.val, err |-> r.err, reqs |-> r.w.reqs,
                    before |-> Len(Matching(World(<<>>), target)),
                    cached |-> Cached(World(<<>>), target),
                    repeat |-> last.op = op /\ last.args = args]
    /\ UNCHANGED <<last, focus, rate_vars, resp_vars, export_vars>>

\* The caller takes the result (or the exception) and goes on.  It remembers
\* a call that returned after starting without the object it is about.
ReturnToCaller ==
    /\ call # NoCall
    /\ last' = IF /\ call.ok
                  /\ call.target # NoTarget
                  /\ call.before = 0
                  /\ ~call.cached
               THEN [op |-> call.op, args |-> call.args]
               ELSE NoLast
    /\ call' = NoCall
    /\ UNCHANGED <<remote_vars, book_cache, chapter_cache, page_cache, focus,
                   rate_vars, resp_vars, export_vars>>

BookIds    == 1..Len(books)
ShelfIds   == 1..Len(shelves)
PageIds    == 1..Len(pages)
\* the book (chapter) whose chapters (pages) the calls of the run are about;
\* the remote holds one more, with an entry of its own, that they leave alone
FocusParent == {1}

FindBook ==
    /\ focus = "book"
    /\ \E name \in Names, script \in Script(1) :
        Do("find_book", <<name>>, Target("book", 0, name),
           find_book(World(script), name))

CreateBook ==
    /\ focus = "book"
    /\ Len(books) < MaxEntries
    /\ \E name \in Names, script \in Script(1) :
        Do("create_book", <<name>>, Target("book", 0, name),
           create_book(World(script), name, ""))

FindOrCreateBook ==
    /\ focus = "book"
    /\ Len(books) < MaxEntries
    /\ \E name \in Names, script \in Script(2) :
        Do("find_or_create_book", <<name>>, Target("book", 0, name),
           find_or_create_book(World(script), name, ""))

FindOrCreateAreasBook ==
    /\ focus = "book"
    /\ Len(books) < MaxEntries
    /\ \E script \in Script(2) :
        Do("find_or_create_areas_book", <<>>, Target("book", 0, AreasName),
           find_or_create_areas_book(World(script)))

FindChapter ==
    /\ focus = "chapter"
    /\ \E book_id \in FocusParent, name \in Names, script \in Script(1) :
        Do("find_chapter", <<book_id, name>>, Target("chapter", book_id, name),
           find_chapter(World(script), book_id, name))

CreateChapter ==
    /\ focus = "chapter"
    /\ Len(chapters) < MaxEntries + 1
    /\ \E book_id \in FocusParent, name \in Names, script \in Script(1) :
        Do("create_chapter", <<book_id, name>>, Target("chapter", book_id, name),
           create_chapter(World(script), book_id, name, ""))

FindOrCreateChapter ==
    /\ focus = "chapter"
    /\ Len(chapters) < MaxEntries + 1
    /\ \E book_id \in FocusParent, name \in Names, script \in Script(2) :
        Do("find_or_create_chapter", <<book_id, name>>,
           Target("chapter", book_id, name),
           find_or_create_chapter(World(script), book_id, name, ""))

FindPage ==
    /\ focus = "page"
    /\ \E chapter_id \in FocusParent, name \in Names, script \in Script(1) :
        Do("find_page", <<chapter_id, name>>, Target("page", chapter_id, name),
           find_page(World(script), chapter_id, name))

CreatePage ==
    /\ focus = "page"
    /\ Len(pages) < MaxEntries + 1
    /\ \E chapter_id \in FocusParent, name \in Names, c \in {"v1"},
          script \in Script(1) :
        Do("create_page", <<chapter_id, name, c>>,
           Target("page", chapter_id, name),
           create_page(World(script), chapter_id, name, c))

UpdatePage ==
    /\ focus = "page"
    /\ \E page_id \in {p \in PageIds : pages[p].chapter_id \in FocusParent},
          name \in Names, c \in {"v2"}, script \in Script(1) :
        Do("update_page", <<page_id, name, c>>,
           Target("page", pages[page_id].chapter_id, name),
           update_page(World(script), page_id, name, c))

CreateOrUpdatePage ==
    /\ focus = "page"
    /\ Len(pages) < MaxEntries + 1
    /\ \E chapter_id \in FocusParent, name \in Names, c \in Contents,
          script \in Script(2) :
        Do("create_or_update_page", <<chapter_id, name, c>>,
           Target("page", chapter_id, name),
           create_or_update_page(World(script), chapter_id, name, c))

ClearCache ==
    /\ book_cache # None \/ chapter_cache # <<>> \/ page_cache # <<>>
    /\ Do("clear_cache", <<>>, NoTarget, clear_cache(World(<<>>)))

GetShelves ==
    /\ focus = "shelf"
    /\ \E script \in Script(1) :
        Do("get_shelves", <<>>, NoTarget, get_shelves(World(script)))

FindShelf ==
    /\ focus = "shelf"
    /\ \E name \in Names, script \in Script(1) :
        Do("find_shelf", <<name>>, Target("shelf", 0, name),
           find_shelf(World(script), name))

CreateShelf ==
    /\ focus = "shelf"
    /\ Len(shelves) < MaxEntries
    /\ \E name \in Names, script \in Script(1) :
        Do("create_shelf", <<name>>, Target("shelf", 0, name),
           create_shelf(World(script), name, ""))

FindOrCreateShelf ==
    /\ focus = "shelf"
    /\ Len(shelves) < MaxEntries
    /\ \E name \in Names, script \in Script(2) :
        Do("find_or_create_shelf", <<name>>, Target("shelf", 0, name),
           find_or_create_shelf(World(script), name, ""))

AssignBookToShelf ==
    /\ focus = "shelf"
    /\ \E book_id \in BookIds, shelf_id \in ShelfIds, script \in Script(1) :
        Do("assign_book_to_shelf", <<book_id, shelf_id>>, NoTarget,
           assign_book_to_shelf(World(script), book_id, shelf_id))

\* time.time() when the client is constructed
StartTime == 10

RemoteClean ==
    /\ shelves = <<>>
    /\ shelf_books = <<>>
    /\ books = <<>>
    /\ chapters = <<>>
    /\ pages = <<>>

\* The remote a run starts from: clean for books; for the other kinds, what
\* earlier create_book / create_chapter calls of another client left there.
SeedBook(id, name) == [id |-> id, name |-> name]
SeedChapter(id, book_id, name) ==
    [id |-> id, book_id |-> book_id, name |-> name, description |-> ""]

SeedPage(id, chapter_id, name) ==
    [id |-> id, chapter_id |-> chapter_id, name |-> name, markdown |-> "v1"]

RemoteSeed ==
    /\ shelves = <<>>
    /\ shelf_books = <<>>
    /\ books = CASE focus = "book"    -> <<>>
                 [] focus = "shelf"   -> <<SeedBook(1, AreasName)>>
                 [] focus = "chapter" -> <<SeedBook(1, AreasName), SeedBook(2, DenName)>>
                 [] focus = "page"    -> <<SeedBook(1, AreasName)>>
    /\ chapters = CASE focus = "chapter" -> <<SeedChapter(1, 2, AreasName)>>
                    [] focus = "page" -> <<SeedChapter(1, 1, DenName),
                                           SeedChapter(2, 1, AreasName)>>
                    [] OTHER -> <<>>
    /\ pages = IF focus = "page" THEN <<SeedPage(1, 2, AreasName)>> ELSE <<>>

\* BookStackClient.__init__
ClientNew ==
    /\ book_cache = None
    /\ chapter_cache = <<>>
    /\ page_cache = <<>>
    /\ call = NoCall
    /\ last = NoLast
    /\ last_request_time = 0
    /\ now = StartTime
    /\ prev_start = None
    /\ gap = None

\* The locals of handle_export, with what the run logged, the notifications
\* it raised for the user and how it ended.
\* healthy: whether the remote answers every request of this run with 200.
\* before: how the run before this one ended and the pages it left.
NoLocals ==
    [area_filter |-> <<>>, healthy |-> TRUE, shelf_name |-> <<>>,
     areas |-> <<>>, shelf |-> None, areas_book |-> None,
     shelf_assigned |-> None, areas_by_floor |-> <<>>,
     fi |-> 0, ai |-> 0, floor_chapter |-> None,
     created_chapters |-> 0, created_pages |-> 0,
     attempted |-> <<>>, log |-> <<>>, notifications |-> <<>>,
     result |-> "", failed_step |-> "",
     before |-> [result |-> "", pages |-> 0]]

\* BookStackIntegrationConfigFlow.__init__, before its first step
\* source: what started the flow, the user or configuration.yaml
\* user_input: what the base settings were last submitted with
\* tests: the connection tests the flow has run, in order
NoFlow ==
    [source |-> "", step |-> "init", form |-> "", data |-> <<>>,
     errors |-> <<>>, shelf_choices |-> {}, user_input |-> None,
     tests |-> <<>>]

\* hass.data before async_setup, no handler of the integration called yet
NoReturn == [op |-> "", entry_id |-> "", ok |-> FALSE, val |-> <<>>, err |-> ""]

NoSetup ==
    /\ hass_data = <<>>
    /\ returned = NoReturn
    /\ services = {}

\* no handle_export invocation in flight
NoRace == <<>>

NoExport ==
    /\ flow = NoFlow
    /\ NoSetup
    /\ race = NoRace
    /\ config_entries = <<>>
    /\ area_registry = <<>>
    /\ device_registry = <<>>
    /\ states = <<>>
    /\ pc = "idle"
    /\ run = 0
    /\ ex = NoLocals

Init ==
    /\ focus \in {"shelf", "book", "chapter", "page"}
    /\ RemoteSeed
    /\ ClientNew
    /\ response = None
    /\ handled = None
    /\ NoExport

Next ==
    \/ FindBook
    \/ CreateBook
    \/ FindOrCreateBook
    \/ FindOrCreateAreasBook
    \/ FindChapter
    \/ CreateChapter
    \/ FindOrCreateChapter
    \/ FindPage
    \/ CreatePage
    \/ UpdatePage
    \/ CreateOrUpdatePage
    \/ ClearCache
    \/ GetShelves
    \/ FindShelf
    \/ CreateShelf
    \/ FindOrCreateShelf
    \/ AssignBookToShelf
    \/ ReturnToCaller

Spec == Init /\ [][Next]_vars

----------------------------------------------------------------------------
(* _handle_response taken alone, on every status code                      *)

StatusCodes == 100..599

\* the parsed body of the response handled
SomeBody == EntityBody(SeedBook(1, AreasName))

HandleResponse ==
    \E status \in StatusCodes :
        /\ response' = Some(status)
        /\ handled' = Some(_handle_response([status_code |-> status,
                                             body |-> SomeBody]))
        /\ UNCHANGED <<remote_vars, client_vars, rate_vars, export_vars>>

ResponseInit ==
    /\ focus = "response"
    /\ RemoteClean
    /\ ClientNew
    /\ response = None
    /\ handled = None
    /\ NoExport

ResponseSpec == ResponseInit /\ [][HandleResponse]_vars

----------------------------------------------------------------------------
(* The pacing of _make_request: time in units of 100 ms                    *)

\* self._min_request_interval = 0.5
MinRequestInterval == 5

\* the horizon of the clock, the longest pause between two calls, and the
\* longest a request takes (up to its timeout)
MaxTime == 30
MaxIdle == 7
MaxDuration == 3

\* _make_request from `current_time = time.time()` on: the sleep, the request
\* that starts after it and takes `duration`, and the update of
\* _last_request_time, which the `except` branch does not reach
MakeRequestTiming(current_time, last_time, duration, raised) ==
    LET time_since_last == current_time - last_time
        sleep == IF time_since_last < MinRequestInterval
                 THEN MinRequestInterval - time_since_last
                 ELSE 0
        start == current_time + sleep
    IN  [start |-> start,
         end |-> start + duration,
         last_request_time |-> IF raised THEN last_time ELSE start + duration]

\* the clock, _last_request_time and the spacing of the last two starts
\* after a request timed as t
Clocks(t) ==
    [now |-> t.end,
     last_request_time |-> t.last_request_time,
     prev_start |-> Some(t.start),
     gap |-> IF prev_start = None THEN None ELSE Some(t.start - prev_start[1])]

\* a request that gets a response (of any status)
RequestAnswered ==
    \E duration \in 0..MaxDuration :
    \E c \in {Clocks(MakeRequestTiming(now, last_request_time, duration, FALSE))} :
        /\ c.now <= MaxTime
        /\ now' = c.now
        /\ last_request_time' = c.last_request_time
        /\ prev_start' = c.prev_start
        /\ gap' = c.gap
        /\ UNCHANGED <<remote_vars, client_vars, resp_vars, export_vars>>

\* a request on which requests raises (no connection, or a timeout)
RequestFails ==
    \E duration \in 0..MaxDuration :
    \E c \in {Clocks(MakeRequestTiming(now, last_request_time, duration, TRUE))} :
        /\ c.now <= MaxTime
        /\ now' = c.now
        /\ last_request_time' = c.last_request_time
        /\ prev_start' = c.prev_start
        /\ gap' = c.gap
        /\ UNCHANGED <<remote_vars, client_vars, resp_vars, export_vars>>

\* the caller does something else between two calls
Idle ==
    \E d \in 1..MaxIdle :
        /\ now + d <= MaxTime
        /\ now' = now + d
        /\ UNCHANGED <<last_request_time, prev_start, gap,
                       remote_vars, client_vars, resp_vars, export_vars>>

RateInit ==
    /\ focus = "rate"
    /\ RemoteClean
    /\ ClientNew
    /\ response = None
    /\ handled = None
    /\ NoExport

RateNext == RequestAnswered \/ RequestFails \/ Idle

RateSpec == RateInit /\ [][RateNext]_vars

----------------------------------------------------------------------------
(* The export service: handle_export over Home Assistant's registries      *)

\* how many times the export service is invoked in a run of the model
MaxRuns == 2

KitchenName == <<"K","i","t","c","h","e","n">>
GarageName  == <<"G","a","r","a","g","e">>
DocsName    == <<"D","o","c","s">>
\* entry.data.get(CONF_SHELF_NAME, "Home Assistant Documentation")
DefaultShelfName ==
    <<"H","o","m","e"," ","A","s","s","i","s","t","a","n","t"," ","D","o","c","u","m","e","n","t","a","t","i","o","n">>
OtherAreas == <<"O","t","h","e","r"," ","A","r","e","a","s">>

\* dict.get(key, default)
Get(d, key, default) == IF key \in DOMAIN d THEN d[key] ELSE default

\* The installations the export runs on: the area registry, the device
\* registry and the entity states.
Area(id, name)             == [id |-> id, name |-> name]
Device(id, area_id)        == [id |-> id, area_id |-> area_id]
State(entity_id, area_id)  == [entity_id |-> entity_id, area_id |-> area_id]

Installations ==
    { [areas |-> <<>>, devices |-> <<>>, states |-> <<>>],
      [areas |-> <<Area("kitchen", KitchenName)>>,
       devices |-> <<Device("d1", "kitchen")>>,
       states |-> <<State("light.kitchen", "kitchen")>>],
      [areas |-> <<Area("kitchen", KitchenName), Area("den", DenName),
                   Area("garage", GarageName)>>,
       devices |-> <<Device("d1", "kitchen"), Device("d2", "den")>>,
       states |-> <<State("light.kitchen", "kitchen")>>] }

\* the config entries of the domain: none, one naming its shelf, one that
\* leaves the shelf name to its default
ConfigEntries ==
    { <<>>,
      <<[data |-> [base_url |-> "url", shelf_name |-> DocsName]]>>,
      <<[data |-> [base_url |-> "url"]]>> }

\* call.data.get("area_filter"): absent (or empty), or a piece of text
Filters == { <<>>, <<"g","r","o","u","n","d">>, <<"O","T","H","E","R">> }

_discover_home_assistant_areas(registry) == registry

\* A mutant of _get_area_devices_and_entities: no selection by area.
DevicesAndEntitiesOfAll(devs, sts, area_id) ==
    [devices |-> devs, entities |-> sts,
     device_count |-> Len(devs), entity_count |-> Len(sts)]

_get_area_devices_and_entities(devs, sts, area_id) ==
    LET devices  == SelectSeq(devs, LAMBDA d : d.area_id = area_id)
        entities == SelectSeq(sts, LAMBDA e : e.area_id = area_id)
    IN  [devices |-> devices, entities |-> entities,
         device_count |-> Len(devices), entity_count |-> Len(entities)]

floor_mapping ==
    << [floor_name |-> <<"G","r","o","u","n","d"," ","F","l","o","o","r">>,
        keywords |-> <<<<"l","i","v","i","n","g">>,
                       <<"k","i","t","c","h","e","n">>,
                       <<"g","a","r","a","g","e">>,
                       <<"e","n","t","r","a","n","c","e">>,
                       <<"d","i","n","i","n","g">>>>],
       [floor_name |-> <<"F","i","r","s","t"," ","F","l","o","o","r">>,
        keywords |-> <<<<"b","e","d","r","o","o","m">>,
                       <<"b","a","t","h","r","o","o","m">>,
                       <<"o","f","f","i","c","e">>,
                       <<"g","u","e","s","t">>>>],
       [floor_name |-> <<"B","a","s","e","m","e","n","t">>,
        keywords |-> <<<<"b","a","s","e","m","e","n","t">>,
                       <<"c","e","l","l","a","r">>>>],
       [floor_name |-> <<"A","t","t","i","c">>,
        keywords |-> <<<<"a","t","t","i","c">>,
                       <<"l","o","f","t">>>>],
       [floor_name |-> <<"O","u","t","s","i","d","e">>,
        keywords |-> <<<<"g","a","r","d","e","n">>,
                       <<"p","a","t","i","o">>,
                       <<"b","a","l","c","o","n","y">>,
                       <<"d","r","i","v","e","w","a","y">>,
                       <<"o","u","t","s","i","d","e">>>>] >>

\* A mutant of FloorOf: the last matching floor wins.
LastFloorOf(area_name) ==
    LET area_name_lower == Lower(area_name)
        hits == {f \in 1..Len(floor_mapping) :
                    \E k \in 1..Len(floor_mapping[f].keywords) :
                        Contains(floor_mapping[f].keywords[k], area_name_lower)}
    IN  IF hits = {} THEN 0 ELSE CHOOSE f \in hits : \A g \in hits : f >= g

\* the first floor of floor_mapping one of whose keywords occurs in the
\* lower-cased area name; 0 when the area is not mapped
FloorOf(area_name) ==
    LET area_name_lower == Lower(area_name)
        hits == {f \in 1..Len(floor_mapping) :
                    \E k \in 1..Len(floor_mapping[f].keywords) :
                        Contains(floor_mapping[f].keywords[k], area_name_lower)}
    IN  IF hits = {} THEN 0 ELSE CHOOSE f \in hits : \A g \in hits : f <= g

Ids(areas) == [i \in 1..Len(areas) |-> areas[i].id]

\* A mutant of _map_areas_to_floors: Other Areas is always there.
MapWithOtherAlways(areas) ==
    LET floors == [f \in 1..Len(floor_mapping) |->
                     [floor_name |-> floor_mapping[f].floor_name,
                      area_ids |-> Ids(SelectSeq(areas,
                                       LAMBDA a : FloorOf(a.name) = f))]]
        unmapped_areas == Ids(SelectSeq(areas, LAMBDA a : FloorOf(a.name) = 0))
    IN  Append(floors, [floor_name |-> OtherAreas, area_ids |-> unmapped_areas])

\* areas_by_floor, in the order of the dict: the five floors, then
\* "Other Areas" when some area is not mapped
_map_areas_to_floors(areas) ==
    LET floors == [f \in 1..Len(floor_mapping) |->
                     [floor_name |-> floor_mapping[f].floor_name,
                      area_ids |-> Ids(SelectSeq(areas,
                                       LAMBDA a : FloorOf(a.name) = f))]]
        unmapped_areas == Ids(SelectSeq(areas, LAMBDA a : FloorOf(a.name) = 0))
    IN  IF unmapped_areas # <<>>
        THEN Append(floors, [floor_name |-> OtherAreas,
                             area_ids |-> unmapped_areas])
        ELSE floors

\* the description of a floor chapter
ChapterDescription(area_name, device_count, entity_count) ==
    [area_name |-> area_name, device_count |-> device_count,
     entity_count |-> entity_count]

create_area_chapter(w, book_id, area_name, area_info) ==
    find_or_create_chapter(w, book_id, area_name,
        ChapterDescription(area_name, Get(area_info, "device_count", 0),
                           Get(area_info, "entity_count", 0)))

\* The markdown of an area page, by what it is made of: the area name, the
\* two counts, a table row per device and per entity, and the time of
\* generation (timestamp: the clock read by datetime.now()).
_generate_area_page_content(area_name, area_info, timestamp) ==
    [area_name |-> area_name,
     device_count |-> Get(area_info, "device_count", 0),
     entity_count |-> Get(area_info, "entity_count", 0),
     devices |-> Get(area_info, "devices", <<>>),
     entities |-> Get(area_info, "entities", <<>>),
     timestamp |-> timestamp]

Overview == <<" ","O","v","e","r","v","i","e","w">>
PageTitle(area_name) == area_name \o Overview

create_area_page(w, chapter_id, area_name, area_info, timestamp) ==
    create_or_update_page(w, chapter_id, PageTitle(area_name),
        _generate_area_page_content(area_name, area_info, timestamp))

\* A mutant of Exported: a floor without areas is not skipped.
ExportedThoughEmpty(area_filter, floor) ==
    area_filter # <<>> => Contains(Lower(area_filter), Lower(floor.floor_name))

\* `if area_filter: if area_filter.lower() not in floor_name.lower(): continue`
\* and `if not floor_area_ids: continue`
Exported(area_filter, floor) ==
    /\ area_filter # <<>> => Contains(Lower(area_filter), Lower(floor.floor_name))
    /\ floor.area_ids # <<>>

\* A mutant of NextFloor: the loop starts over from the first floor.
FirstFloorAgain(e, from) ==
    LET rest == {f \in 1..Len(e.areas_by_floor) :
                    Exported(e.area_filter, e.areas_by_floor[f])}
    IN  IF rest = {} THEN 0 ELSE CHOOSE f \in rest : \A g \in rest : f <= g

\* the next floor the loop does not skip after position `from`; 0: none left
NextFloor(e, from) ==
    LET rest == {f \in (from + 1)..Len(e.areas_by_floor) :
                    Exported(e.area_filter, e.areas_by_floor[f])}
    IN  IF rest = {} THEN 0 ELSE CHOOSE f \in rest : \A g \in rest : f <= g

\* the loop moves to floor f, or ends with the summary when f = 0
Enter(e, f) ==
    IF f = 0
    THEN [e EXCEPT !.fi = 0, !.ai = 0, !.result = "completed",
                   !.log = Append(@, "info: Successfully exported")]
    ELSE [e EXCEPT !.fi = f, !.ai = 0]

\* `except BookStackError as e: _LOGGER.error(...)`: the run ends there
Caught(e, step) ==
    [e EXCEPT !.result = "api_error", !.failed_step = step,
              !.log = Append(@, "error: BookStack API error during export")]

\* the answers the remote gives to the requests of one step of the run
RunScripts(n) ==
    IF ex.healthy THEN {[i \in 1..n |-> Answer(200)]} ELSE Script(n)

\* one executor job of the run: the client's call `op(args)` ends as r
Job(op, args, r) ==
    /\ shelves' = r.w.shelves
    /\ books' = r.w.books
    /\ chapters' = r.w.chapters
    /\ pages' = r.w.pages
    /\ shelf_books' = r.w.shelf_books
    /\ book_cache' = r.w.book_cache
    /\ chapter_cache' = r.w.chapter_cache
    /\ page_cache' = r.w.page_cache
    /\ call' = [NoCall EXCEPT !.op = op, !.args = args, !.ok = r.ok,
                              !.val = r.val, !.err = r.err, !.reqs = r.w.reqs]
    /\ UNCHANGED <<last, focus, rate_vars, resp_vars, hass_vars, run>>

\* A mutant of StartExport: an empty area registry does not end the run.
StartExportWithoutAreas ==
    /\ pc \in {"idle", "done"}
    /\ run < MaxRuns
    /\ run' = run + 1
    /\ \E area_filter \in Filters, healthy \in BOOLEAN :
        LET e == [NoLocals EXCEPT
                    !.area_filter = area_filter, !.healthy = healthy,
                    !.before = [result |-> ex.result, pages |-> Len(pages)]]
            areas == _discover_home_assistant_areas(area_registry)
        IN  IF config_entries = <<>>
            THEN /\ ex' = [e EXCEPT !.result = "no_config",
                             !.log = <<"error: No BookStack configuration found">>]
                 /\ pc' = "done"
                 /\ UNCHANGED <<book_cache, chapter_cache, page_cache>>
            ELSE /\ book_cache' = None
                 /\ chapter_cache' = <<>>
                 /\ page_cache' = <<>>
                 /\ IF FALSE
                    THEN /\ ex' = [e EXCEPT !.result = "no_areas",
                                     !.log = <<"error: No areas found in Home Assistant">>]
                         /\ pc' = "done"
                    ELSE /\ ex' = [e EXCEPT !.areas = areas,
                                     !.shelf_name = Get(config_entries[1].data,
                                                        "shelf_name", DefaultShelfName)]
                         /\ pc' = "shelf"
    /\ call' = NoCall
    /\ UNCHANGED <<remote_vars, last, focus, rate_vars, resp_vars, hass_vars>>

\* handle_export from the service call to its first executor job
StartExport ==
    /\ pc \in {"idle", "done"}
    /\ run < MaxRuns
    /\ run' = run + 1
    /\ \E area_filter \in Filters, healthy \in BOOLEAN :
        LET e == [NoLocals EXCEPT
                    !.area_filter = area_filter, !.healthy = healthy,
                    !.before = [result |-> ex.result, pages |-> Len(pages)]]
            areas == _discover_home_assistant_areas(area_registry)
        IN  IF config_entries = <<>>
            THEN /\ ex' = [e EXCEPT !.result = "no_config",
                             !.log = <<"error: No BookStack configuration found">>]
                 /\ pc' = "done"
                 /\ UNCHANGED <<book_cache, chapter_cache, page_cache>>
            ELSE /\ book_cache' = None
                 /\ chapter_cache' = <<>>
                 /\ page_cache' = <<>>
                 /\ IF areas = <<>>
                    THEN /\ ex' = [e EXCEPT !.result = "no_areas",
                                     !.log = <<"error: No areas found in Home Assistant">>]
                         /\ pc' = "done"
                    ELSE /\ ex' = [e EXCEPT !.areas = areas,
                                     !.shelf_name = Get(config_entries[1].data,
                                                        "shelf_name", DefaultShelfName)]
                         /\ pc' = "shelf"
    /\ call' = NoCall
    /\ UNCHANGED <<remote_vars, last, focus, rate_vars, resp_vars, hass_vars>>

\* shelf = client.find_or_create_shelf(shelf_name)
ShelfStep ==
    /\ pc = "shelf"
    /\ \E script \in RunScripts(2) :
       \E r \in {find_or_create_shelf(World(script), ex.shelf_name, "")} :
        /\ Job("find_or_create_shelf", <<ex.shelf_name>>, r)
        /\ IF r.ok
           THEN pc' = "book" /\ ex' = [ex EXCEPT !.shelf = r.val]
           ELSE pc' = "done" /\ ex' = Caught(ex, "shelf")

\* areas_book = client.find_or_create_areas_book()
BookStep ==
    /\ pc = "book"
    /\ \E script \in RunScripts(2) :
       \E r \in {find_or_create_areas_book(World(script))} :
        /\ Job("find_or_create_areas_book", <<>>, r)
        /\ IF r.ok
           THEN pc' = "assign" /\ ex' = [ex EXCEPT !.areas_book = r.val]
           ELSE pc' = "done" /\ ex' = Caught(ex, "book")

\* shelf_assigned = client.assign_book_to_shelf(areas_book.id, shelf.id),
\* then _map_areas_to_floors and the loop up to its first chapter
AssignStep ==
    /\ pc = "assign"
    /\ \E script \in RunScripts(1) :
       \E r \in {assign_book_to_shelf(World(script), ex.areas_book[1].id,
                                      ex.shelf[1].id)} :
        /\ Job("assign_book_to_shelf", <<ex.areas_book[1].id, ex.shelf[1].id>>, r)
        /\ IF r.ok
           THEN \E e \in {[ex EXCEPT !.shelf_assigned = r.val,
                                     !.areas_by_floor = _map_areas_to_floors(ex.areas)]} :
                \E f \in {NextFloor(e, 0)} :
                    /\ ex' = Enter(e, f)
                    /\ pc' = IF f = 0 THEN "done" ELSE "chapter"
           ELSE pc' = "done" /\ ex' = Caught(ex, "assign")

\* floor_chapter = client.create_area_chapter(areas_book.id, floor_name, {})
ChapterStep ==
    /\ pc = "chapter"
    /\ \E script \in RunScripts(2) :
       \E floor_name \in {ex.areas_by_floor[ex.fi].floor_name} :
       \E r \in {create_area_chapter(World(script), ex.areas_book[1].id,
                                     floor_name, <<>>)} :
        /\ Job("create_area_chapter", <<ex.areas_book[1].id, floor_name>>, r)
        /\ IF ~r.ok
           THEN pc' = "done" /\ ex' = Caught(ex, "chapter")
           ELSE IF ex.areas_by_floor[ex.fi].area_ids # <<>>
           THEN /\ pc' = "page"
                /\ ex' = [ex EXCEPT !.floor_chapter = r.val,
                                    !.created_chapters = @ + 1, !.ai = 1]
           ELSE \E f \in {NextFloor(ex, ex.fi)} :
                /\ pc' = IF f = 0 THEN "done" ELSE "chapter"
                /\ ex' = Enter([ex EXCEPT !.floor_chapter = r.val,
                                          !.created_chapters = @ + 1], f)

AreaName(areas, area_id) ==
    areas[CHOOSE i \in 1..Len(areas) : areas[i].id = area_id].name

\* area_info = _get_area_devices_and_entities(hass, area_id) and
\* client.create_area_page(floor_chapter.id, areas[area_id]["name"], area_info),
\* then the loop up to its next page or chapter, or to its end
PageStep ==
    /\ pc = "page"
    /\ \E script \in RunScripts(2) :
       \E area_id \in {ex.areas_by_floor[ex.fi].area_ids[ex.ai]} :
       \E area_info \in {_get_area_devices_and_entities(device_registry, states,
                                                         area_id)} :
       \E r \in {create_area_page(World(script), ex.floor_chapter[1].id,
                                  AreaName(ex.areas, area_id), area_info, run)} :
       \E e \in {[ex EXCEPT !.attempted = Append(@, area_id)]} :
        /\ Job("create_area_page", <<ex.floor_chapter[1].id, area_id>>, r)
        /\ IF ~r.ok
           THEN pc' = "done" /\ ex' = Caught(e, "page")
           ELSE IF ex.ai < Len(ex.areas_by_floor[ex.fi].area_ids)
           THEN /\ pc' = "page"
                /\ ex' = [e EXCEPT !.created_pages = @ + 1, !.ai = @ + 1]
           ELSE \E f \in {NextFloor(ex, ex.fi)} :
                /\ pc' = IF f = 0 THEN "done" ELSE "chapter"
                /\ ex' = Enter([e EXCEPT !.created_pages = @ + 1], f)

ExportInit ==
    /\ focus = "export"
    /\ flow = NoFlow
    /\ NoSetup
    /\ race = NoRace
    /\ RemoteClean
    /\ ClientNew
    /\ response = None
    /\ handled = None
    /\ config_entries \in ConfigEntries
    /\ \E h \in Installations :
        /\ area_registry = h.areas
        /\ device_registry = h.devices
        /\ states = h.states
    /\ pc = "idle"
    /\ run = 0
    /\ ex = NoLocals

ExportNext ==
    \/ StartExport
    \/ ShelfStep
    \/ BookStep
    \/ AssignStep
    \/ ChapterStep
    \/ PageStep

ExportSpec == ExportInit /\ [][ExportNext]_vars

\* Every executor job the handler awaits ends: its requests return, fail or
\* time out.  The service call itself is up to the user.
ExportLiveSpec ==
    /\ ExportSpec
    /\ WF_vars(ShelfStep)
    /\ WF_vars(BookStep)
    /\ WF_vars(AssignStep)
    /\ WF_vars(ChapterStep)
    /\ WF_vars(PageStep)

----------------------------------------------------------------------------
(* _map_areas_to_floors taken alone, on any list of areas                  *)

\* how many areas the registry handed to the classifier holds at most
MaxAreas == 3

LoftOfficeName == <<"L","o","f","t"," ","O","f","f","i","c","e">>
AtticName      == <<"A","t","t","i","c">>
CellarName     == <<"C","e","l","l","a","r">>
PatioName      == <<"P","a","t","i","o">>

\* area names: one or two for each floor, one for none
AreaNames ==
    { KitchenName, GarageName, LoftOfficeName, AtticName, CellarName,
      PatioName, DenName }

AreaIds == <<"a1", "a2", "a3", "a4">>

\* the registries of up to MaxAreas areas, named freely
Registries ==
    UNION { { [i \in 1..n |-> Area(AreaIds[i], names[i])] :
                names \in [1..n -> AreaNames] } : n \in 0..MaxAreas }

\* areas_by_floor = _map_areas_to_floors(areas), on the registry's areas
Classify ==
    /\ focus = "classify"
    /\ ex.areas_by_floor = <<>>
    /\ ex' = [ex EXCEPT !.areas = area_registry,
                        !.areas_by_floor = _map_areas_to_floors(area_registry)]
    /\ UNCHANGED <<remote_vars, client_vars, rate_vars, resp_vars,
                   hass_vars, pc, run>>

ClassifyInit ==
    /\ focus = "classify"
    /\ flow = NoFlow
    /\ NoSetup
    /\ race = NoRace
    /\ RemoteClean
    /\ ClientNew
    /\ response = None
    /\ handled = None
    /\ config_entries = <<>>
    /\ area_registry \in Registries
    /\ device_registry = <<>>
    /\ states = <<>>
    /\ pc = "idle"
    /\ run = 0
    /\ ex = NoLocals

ClassifySpec == ClassifyInit /\ [][Classify]_vars

----------------------------------------------------------------------------
(* The configuration wizard: config_flow.py, one flow from its first form  *)
(* to its config entry                                                     *)

Blank == " "

\* str.strip() and str.rstrip(chars), for one character
RECURSIVE LStrip(_)
LStrip(s) == IF s # <<>> /\ Head(s) = Blank THEN LStrip(Tail(s)) ELSE s

RECURSIVE RStripOf(_, _)
RStripOf(s, c) ==
    IF s # <<>> /\ s[Len(s)] = c THEN RStripOf(SubSeq(s, 1, Len(s) - 1), c) ELSE s

Strip(s) == RStripOf(LStrip(s), Blank)

\* str.startswith(prefix), str.endswith(suffix)
StartsWith(s, prefix) ==
    Len(s) >= Len(prefix) /\ SubSeq(s, 1, Len(prefix)) = prefix
EndsWith(s, suffix) ==
    Len(s) >= Len(suffix) /\ SubSeq(s, Len(s) - Len(suffix) + 1, Len(s)) = suffix

Digits == <<"0","1","2","3","4","5","6","7","8","9">>
IsDigit(c) == \E i \in 1..Len(Digits) : Digits[i] = c
DigitValue(c) == (CHOOSE i \in 1..Len(Digits) : Digits[i] = c) - 1

RECURSIVE Decimal(_)
Decimal(s) ==
    IF s = <<>> THEN 0
    ELSE 10 * Decimal(SubSeq(s, 1, Len(s) - 1)) + DigitValue(s[Len(s)])

\* int(timeout) of a number or of a text: the value, or ValueError
int(v) ==
    IF "int" \in DOMAIN v THEN [ok |-> TRUE, val |-> v.int]
    ELSE Bind(Strip(v.text), LAMBDA t :
         IF t # <<>> /\ \A i \in 1..Len(t) : IsDigit(t[i])
         THEN [ok |-> TRUE, val |-> Decimal(t)]
         ELSE [ok |-> FALSE, val |-> 0])

DEFAULT_TIMEOUT == 30
MinTimeout == 5
MaxTimeout == 300
MinTokenId == 5
MinTokenSecret == 10
MinShelfName == 2

HttpScheme == <<"h","t","t","p",":","/","/">>
HttpsScheme == <<"h","t","t","p","s",":","/","/">>
ApiSuffix == <<"/","a","p","i">>
CreateNew == <<"_","_","c","r","e","a","t","e","_","n","e","w","_","_">>
ConnectionTestFailed == <<"C","o","n","n","e","c","t","i","o","n"," ","t","e","s","t"," ","f","a","i","l","e","d">>

NoErrors == <<>>

\* A mutant of ErrorIf: no test of a field ever fails.
NoErrorEver(failed, field, code) == NoErrors

\* `errors[field] = code` when the test of the field fails
ErrorIf(failed, field, code) ==
    IF failed THEN [f \in {field} |-> code] ELSE NoErrors

\* async_show_form(step_id=..., data_schema=..., errors=...)
\* form: the field the schema of the form asks for
async_show_form(f, w, step_id, form, errors) ==
    [f |-> [f EXCEPT !.step = step_id, !.form = form, !.errors = errors],
     w |-> w, entry |-> None]

\* BookStackClient.test_connection
test_connection(w) ==
    Bind(Fetch(w, Request("GET", "/api/books", 0, NoPayload)), LAMBDA f :
        IF f.ok THEN Return(f.w, TRUE)
        ELSE IF IsBookStackError(f.err) THEN Return(f.w, FALSE)
        ELSE Raise(f.w, f.err))

\* the form error async_step_test picks from str(e)
ErrorMessage(str_e) ==
    IF Contains(<<"a","u","t","h","e","n","t","i","c","a","t","i","o","n">>, Lower(str_e)) \/ Contains(<<"4","0","1">>, str_e)
    THEN "auth_failed"
    ELSE IF Contains(<<"n","o","t"," ","f","o","u","n","d">>, Lower(str_e)) \/ Contains(<<"4","0","4">>, str_e)
    THEN "connection_failed"
    ELSE IF Contains(<<"t","i","m","e","o","u","t">>, Lower(str_e)) \/ Contains(<<"t","i","m","e">>, Lower(str_e))
    THEN "timeout"
    ELSE IF Contains(<<"r","a","t","e">>, Lower(str_e)) \/ Contains(<<"4","2","9">>, str_e)
    THEN "connection_failed"
    ELSE "connection_failed"

\* what the flow remembers of a connection test: how test_connection ended
\* and what happened to its request
Tested(t) ==
    [result |-> IF ~t.ok THEN "raised" ELSE IF t.val THEN "true" ELSE "false",
     net |-> t.w.reqs[Len(t.w.reqs)].net,
     status |-> t.w.reqs[Len(t.w.reqs)].status]

\* A mutant of async_step_test: the entry is created whatever the test says.
CreateEntryUntested(f, w) ==
    Bind(test_connection(w), LAMBDA t :
        [f |-> [f EXCEPT !.step = "create_entry", !.form = "", !.errors = NoErrors,
                         !.tests = Append(@, Tested(t))],
         w |-> t.w,
         entry |-> Some([title |-> "My Bookstack Instance", data |-> f.data])])

async_step_test(f, w) ==
    Bind(test_connection(w), LAMBDA t :
    Bind([f EXCEPT !.tests = Append(@, Tested(t))], LAMBDA f1 :
        IF ~t.ok
        THEN async_show_form(f1, t.w, "shelf_selection", "shelf_name",
                             [base |-> "unknown"])
        ELSE IF t.val
        THEN Bind(find_or_create_shelf(t.w, f.data.shelf_name, ""), LAMBDA s :
             [f |-> [f1 EXCEPT !.step = "create_entry", !.form = "",
                               !.errors = NoErrors],
              w |-> s.w,
              entry |-> Some([title |-> "My Bookstack Instance",
                              data |-> f.data])])
        ELSE async_show_form(f1, t.w, "shelf_selection", "shelf_name",
                             [base |-> ErrorMessage(ConnectionTestFailed)])))

async_step_create_shelf(f, w, user_input) ==
    IF user_input # None /\ Len(Strip(user_input[1].shelf_name)) >= MinShelfName
    THEN async_step_test(
            [f EXCEPT !.data = [shelf_name |-> Strip(user_input[1].shelf_name)] @@ @],
            w)
    ELSE async_show_form(f, w, "create_shelf", "shelf_name",
            ErrorIf(user_input # None, "shelf_name", "invalid_shelf_name"))

async_step_shelf_selection(f, w, user_input) ==
    IF /\ user_input # None
       /\ "existing_shelf" \in DOMAIN user_input[1]
       /\ user_input[1].existing_shelf = CreateNew
    THEN async_step_create_shelf(f, w, None)
    ELSE IF /\ user_input # None
            /\ "existing_shelf" \in DOMAIN user_input[1]
            /\ user_input[1].existing_shelf # <<>>
    THEN async_step_test(
            [f EXCEPT !.data = [shelf_name |-> user_input[1].existing_shelf] @@ @],
            w)
    ELSE Bind(get_shelves(w), LAMBDA g :
         Bind(IF g.ok THEN g.val[1] ELSE <<>>, LAMBDA available_shelves :
            async_show_form(
                [f EXCEPT !.shelf_choices =
                    {available_shelves[i].name : i \in 1..Len(available_shelves)}
                        \cup {CreateNew}],
                g.w, "shelf_selection", "existing_shelf", NoErrors)))

async_step_user(f, w, user_input) ==
    IF user_input = None
    THEN async_show_form(f, w, "user", "base_url", NoErrors)
    ELSE
    Bind(RStripOf(user_input[1].base_url, "/"), LAMBDA base_url :
    Bind(user_input[1].token_id, LAMBDA token_id :
    Bind(user_input[1].token_secret, LAMBDA token_secret :
    Bind(int(Get(user_input[1], "timeout", [int |-> DEFAULT_TIMEOUT])), LAMBDA timeout_int :
    Bind(StartsWith(base_url, HttpScheme) \/ StartsWith(base_url, HttpsScheme), LAMBDA url_ok :
    Bind(timeout_int.ok /\ ~(timeout_int.val < MinTimeout \/ timeout_int.val > MaxTimeout), LAMBDA timeout_ok :
    Bind(ErrorIf(~url_ok, "base_url", "invalid_url")
         @@ ErrorIf(token_id = <<>> \/ Len(Strip(token_id)) < MinTokenId,
                    "token_id", "invalid_token_id")
         @@ ErrorIf(token_secret = <<>> \/ Len(Strip(token_secret)) < MinTokenSecret,
                    "token_secret", "invalid_token_secret")
         @@ ErrorIf(~timeout_ok, "timeout", "invalid_timeout"), LAMBDA errors :
        IF DOMAIN errors = {}
        THEN async_step_shelf_selection(
                [f EXCEPT !.data =
                    ((IF ~EndsWith(base_url, ApiSuffix)
                      THEN [base_url |-> base_url \o ApiSuffix] ELSE <<>>)
                     @@ [timeout |-> timeout_int.val]
                     @@ user_input[1]) @@ @],
                w, None)
        ELSE async_show_form(f, w, "user", "base_url", errors))))))))

\* async_step_import
async_step_import(f, w, import_config) == async_step_user(f, w, Some(import_config))

\* ---- the wizard driven form by form: whatever the user types, whatever
\* ---- the remote answers

\* connection tests one flow may run
MaxTests == 2

BaseUrls == { <<"h","t","t","p",":","/","/">>, <<"h","t","t","p",":","/","/","b">>, <<"h","t","t","p","s",":","/","/","b","/","a","p","i","/">>, <<"f","t","p",":","/","/","b">> }
TokenIds == { <<>>, <<"a","b","c","d","e">>, <<" "," ","a","b","c"," "," ">>, <<"a","b"," ","c","d">> }
TokenSecrets == { <<"0","1","2","3","4","5","6","7","8","9">>, <<" ","1","2","3","4","5","6","7"," ">> }
Timeouts == { [int |-> 4], [int |-> 5], [int |-> 300], [int |-> 301],
              [text |-> <<"3","0">>], [text |-> <<"a","b","c">>] }

\* what the base-settings form can be submitted with; the timeout is optional
UserInputs ==
    { [base_url |-> u, token_id |-> i, token_secret |-> s] :
        u \in BaseUrls, i \in TokenIds, s \in TokenSecrets }
    \cup
    { [base_url |-> u, token_id |-> i, token_secret |-> s, timeout |-> t] :
        u \in BaseUrls, i \in TokenIds, s \in TokenSecrets, t \in Timeouts }

\* what configuration.yaml can hold
ImportConfigs ==
    { c \in UserInputs :
        /\ c.token_id = <<"a","b","c","d","e">>
        /\ Len(c.token_secret) = 10
        /\ "timeout" \in DOMAIN c
        /\ c.timeout \in {[int |-> 301], [text |-> <<"3","0">>]} }

ShelfNames == { <<>>, <<" ","D"," ">>, DocsName, <<" ","D","e","n"," ">> }

\* a response with status 200 whose body is not JSON: response.json() raises
Garbled == [net |-> "garbled", status |-> 200]
\* the answers to the requests of one step: any answer to the first, and to
\* the requests for the shelf (whose failure the flow ignores) success or
\* a timeout
ShelfOutcomes == {Answer(200), Lost}
ShelfScript(n) == [1..n -> ShelfOutcomes]
FlowScript(n) ==
    {script \in [1..n -> Outcomes \cup {Garbled}] :
        \A i \in 2..n : script[i] \in ShelfOutcomes}

\* the flow manager takes the result of a step: the form shown next, or the
\* entry created
Taken(r) ==
    /\ flow' = r.f
    /\ shelves' = r.w.shelves
    /\ shelf_books' = r.w.shelf_books
    /\ books' = r.w.books
    /\ chapters' = r.w.chapters
    /\ pages' = r.w.pages
    /\ config_entries' = IF r.entry = None THEN config_entries
                         ELSE Append(config_entries, r.entry[1])
    /\ UNCHANGED <<client_vars, rate_vars, resp_vars,
                   area_registry, device_registry, states, hass_data,
                   returned, services, race, pc, run, ex>>

\* the flow is started by the user: async_step_user(None)
StartFlow ==
    /\ flow.step = "init"
    /\ \E r \in {async_step_user([flow EXCEPT !.source = "user"],
                                  World(<<>>), None)} : Taken(r)

\* the flow is started from configuration.yaml
ImportFlow ==
    /\ flow.step = "init"
    /\ \E import_config \in ImportConfigs, script \in ShelfScript(1) :
       \E r \in {async_step_import(
                    [flow EXCEPT !.source = "import",
                                 !.user_input = Some(import_config)],
                    World(script), import_config)} : Taken(r)

SubmitUser ==
    /\ flow.step = "user"
    /\ \E user_input \in UserInputs, script \in ShelfScript(1) :
       \E r \in {async_step_user([flow EXCEPT !.user_input = Some(user_input)],
                                  World(script), Some(user_input))} : Taken(r)

\* the form of the step asks for existing_shelf, or, after a failed test,
\* for shelf_name
SubmitShelfSelection ==
    /\ flow.step = "shelf_selection"
    /\ Len(flow.tests) < MaxTests
    /\ \E user_input \in
            IF flow.form = "existing_shelf"
            THEN {[existing_shelf |-> c] : c \in flow.shelf_choices}
            ELSE {[shelf_name |-> n] : n \in ShelfNames},
          script \in FlowScript(3) :
       \E r \in {async_step_shelf_selection(flow, World(script), Some(user_input))} :
          Taken(r)

SubmitCreateShelf ==
    /\ flow.step = "create_shelf"
    /\ Len(flow.tests) < MaxTests
    /\ \E shelf_name \in ShelfNames, script \in FlowScript(3) :
       \E r \in {async_step_create_shelf(flow, World(script),
                                         Some([shelf_name |-> shelf_name]))} :
          Taken(r)

FlowInit ==
    /\ focus = "flow"
    /\ shelves \in {<<>>, <<[id |-> 1, name |-> DocsName]>>}
    /\ shelf_books = [i \in 1..Len(shelves) |-> <<>>]
    /\ books = <<>>
    /\ chapters = <<>>
    /\ pages = <<>>
    /\ ClientNew
    /\ response = None
    /\ handled = None
    /\ NoExport

FlowNext ==
    \/ StartFlow
    \/ ImportFlow
    \/ SubmitUser
    \/ SubmitShelfSelection
    \/ SubmitCreateShelf

FlowSpec == FlowInit /\ [][FlowNext]_vars

----------------------------------------------------------------------------
(* test_connection taken alone, on every answer to its request             *)

\* any status code, no connection, a timeout, or a 200 that is not JSON
ProbeOutcomes == {Answer(s) : s \in StatusCodes} \cup {Refused, Lost, Garbled}

TestConnection ==
    /\ focus = "probe"
    /\ call = NoCall
    /\ \E o \in ProbeOutcomes :
       \E r \in {test_connection(World(<<o>>))} :
          call' = [NoCall EXCEPT !.op = "test_connection", !.ok = r.ok,
                                 !.val = r.val, !.err = r.err,
                                 !.reqs = r.w.reqs]
    /\ UNCHANGED <<remote_vars, book_cache, chapter_cache, page_cache, last,
                   focus, rate_vars, resp_vars, export_vars>>

ProbeInit ==
    /\ focus = "probe"
    /\ RemoteClean
    /\ ClientNew
    /\ response = None
    /\ handled = None
    /\ NoExport

ProbeSpec == ProbeInit /\ [][TestConnection]_vars

----------------------------------------------------------------------------
(* Two export invocations at once (RaceSpec).  A service call is a task of *)
(* the event loop: while one invocation awaits its executor job, the loop  *)
(* runs the other, whose job a second worker thread of the executor takes. *)
(* The requests of the two jobs reach the remote in any order; the remote  *)
(* serves one request at a time and answers every one of them with 200.    *)

Invocations == {1, 2}

\* one invocation: its position, its locals and the caches of its client
Invocation(p, e, w) ==
    [pc |-> p, ex |-> e, book_cache |-> w.book_cache,
     chapter_cache |-> w.chapter_cache, page_cache |-> w.page_cache]

\* the remote as invocation i's client sees it, answering n requests
RaceWorld(i, n) ==
    [World([k \in 1..n |-> Answer(200)]) EXCEPT
        !.book_cache = race[i].book_cache,
        !.chapter_cache = race[i].chapter_cache,
        !.page_cache = race[i].page_cache]

\* invocation i moved to position p with locals e; the remote is as r left it
RaceMove(i, p, e, r) ==
    /\ shelves' = r.w.shelves
    /\ books' = r.w.books
    /\ chapters' = r.w.chapters
    /\ pages' = r.w.pages
    /\ shelf_books' = r.w.shelf_books
    /\ race' = [race EXCEPT ![i] = Invocation(p, e, r.w)]
    /\ UNCHANGED <<client_vars, rate_vars, resp_vars, config_entries,
                   area_registry, device_registry, states, flow, hass_data,
                   returned, services, pc, run, ex>>

\* handle_export up to its first executor job, with a client of its own
RaceStart(i) ==
    /\ race[i].pc = "idle"
    /\ \E area_filter \in Filters :
       \E e \in {[NoLocals EXCEPT
                    !.area_filter = area_filter,
                    !.areas = _discover_home_assistant_areas(area_registry),
                    !.shelf_name = Get(config_entries[1].data, "shelf_name",
                                       DefaultShelfName)]} :
        race' = [race EXCEPT ![i] =
                    [pc |-> "find_shelf", ex |-> e, book_cache |-> None,
                     chapter_cache |-> <<>>, page_cache |-> <<>>]]
    /\ UNCHANGED <<remote_vars, client_vars, rate_vars, resp_vars,
                   config_entries, area_registry, device_registry, states,
                   flow, hass_data, returned, services, pc, run, ex>>

\* find_or_create_shelf: `shelf = self.find_shelf(name)`
RaceFindShelf(i) ==
    /\ race[i].pc = "find_shelf"
    /\ \E r \in {find_shelf(RaceWorld(i, 1), race[i].ex.shelf_name)} :
        IF r.val # None
        THEN RaceMove(i, "find_book", [race[i].ex EXCEPT !.shelf = r.val], r)
        ELSE RaceMove(i, "create_shelf", race[i].ex, r)

\* find_or_create_shelf: `shelf = self.create_shelf(name, description)`
RaceCreateShelf(i) ==
    /\ race[i].pc = "create_shelf"
    /\ \E r \in {create_shelf(RaceWorld(i, 1), race[i].ex.shelf_name, "")} :
        RaceMove(i, "find_book", [race[i].ex EXCEPT !.shelf = r.val], r)

\* find_or_create_areas_book: `areas_book = self.find_book("Areas")`
RaceFindBook(i) ==
    /\ race[i].pc = "find_book"
    /\ \E r \in {find_book(RaceWorld(i, 1), AreasName)} :
        IF r.val # None
        THEN RaceMove(i, "assign", [race[i].ex EXCEPT !.areas_book = r.val], r)
        ELSE RaceMove(i, "create_book", race[i].ex, r)

\* find_or_create_areas_book: `return self.create_book("Areas", description)`
RaceCreateBook(i) ==
    /\ race[i].pc = "create_book"
    /\ \E r \in {create_book(RaceWorld(i, 1), AreasName, AreasDescription)} :
        RaceMove(i, "assign", [race[i].ex EXCEPT !.areas_book = r.val], r)

\* the loop of handle_export at floor f (0: its end)
RaceEnter(i, e, f, r) ==
    RaceMove(i, IF f = 0 THEN "done" ELSE "find_chapter", Enter(e, f), r)

\* assign_book_to_shelf, then _map_areas_to_floors and the loop up to its
\* first chapter
RaceAssign(i) ==
    /\ race[i].pc = "assign"
    /\ \E r \in {assign_book_to_shelf(RaceWorld(i, 1),
                     race[i].ex.areas_book[1].id, race[i].ex.shelf[1].id)} :
       \E e \in {[race[i].ex EXCEPT
                    !.shelf_assigned = r.val,
                    !.areas_by_floor = _map_areas_to_floors(race[i].ex.areas)]} :
        RaceEnter(i, e, NextFloor(e, 0), r)

\* the chapter of the floor is there: on to its pages
RaceChapter(i, chapter, r) ==
    \E key \in {<<race[i].ex.areas_book[1].id,
                  Lower(race[i].ex.areas_by_floor[race[i].ex.fi].floor_name)>>} :
    \E cached \in {[r EXCEPT !.w.chapter_cache = Put(@, key, chapter[1])]} :
        RaceMove(i, "page",
                 [race[i].ex EXCEPT !.floor_chapter = chapter,
                                    !.created_chapters = @ + 1, !.ai = 1],
                 cached)

\* find_or_create_chapter: `chapter = self.find_chapter(book_id, name)`
\* (the cache of an invocation never holds the floor it comes to: each floor
\* is visited once)
RaceFindChapter(i) ==
    /\ race[i].pc = "find_chapter"
    /\ \E r \in {find_chapter(RaceWorld(i, 1), race[i].ex.areas_book[1].id,
                     race[i].ex.areas_by_floor[race[i].ex.fi].floor_name)} :
        IF r.val # None
        THEN RaceChapter(i, r.val, r)
        ELSE RaceMove(i, "create_chapter", race[i].ex, r)

\* find_or_create_chapter:
\* `chapter = self.create_chapter(book_id, name, description)`
RaceCreateChapter(i) ==
    /\ race[i].pc = "create_chapter"
    /\ \E floor_name \in {race[i].ex.areas_by_floor[race[i].ex.fi].floor_name} :
       \E r \in {create_chapter(RaceWorld(i, 1), race[i].ex.areas_book[1].id,
                     floor_name, ChapterDescription(floor_name, 0, 0))} :
        RaceChapter(i, r.val, r)

\* create_area_page for the next area of the floor, then the loop up to its
\* next page or chapter, or to its end
RacePage(i) ==
    /\ race[i].pc = "page"
    /\ \E e0 \in {race[i].ex} :
       \E area_id \in {e0.areas_by_floor[e0.fi].area_ids[e0.ai]} :
       \E area_info \in {_get_area_devices_and_entities(device_registry, states,
                                                         area_id)} :
       \E r \in {create_area_page(RaceWorld(i, 2), e0.floor_chapter[1].id,
                                  AreaName(e0.areas, area_id), area_info, i)} :
       \E e \in {[e0 EXCEPT !.attempted = Append(@, area_id),
                            !.created_pages = @ + 1]} :
        IF e0.ai < Len(e0.areas_by_floor[e0.fi].area_ids)
        THEN RaceMove(i, "page", [e EXCEPT !.ai = @ + 1], r)
        ELSE RaceEnter(i, e, NextFloor(e0, e0.fi), r)

RaceInit ==
    /\ focus = "race"
    /\ flow = NoFlow
    /\ NoSetup
    /\ RemoteClean
    /\ ClientNew
    /\ response = None
    /\ handled = None
    /\ config_entries \in ConfigEntries \ {<<>>}
    /\ \E h \in {x \in Installations : x.areas # <<>>} :
        /\ area_registry = h.areas
        /\ device_registry = h.devices
        /\ states = h.states
    /\ pc = "idle"
    /\ run = 0
    /\ ex = NoLocals
    /\ race = [i \in Invocations |->
                 [pc |-> "idle", ex |-> NoLocals, book_cache |-> None,
                  chapter_cache |-> <<>>, page_cache |-> <<>>]]

RaceNext ==
    \E i \in Invocations :
        \/ RaceStart(i)
        \/ RaceFindShelf(i)
        \/ RaceCreateShelf(i)
        \/ RaceFindBook(i)
        \/ RaceCreateBook(i)
        \/ RaceAssign(i)
        \/ RaceFindChapter(i)
        \/ RaceCreateChapter(i)
        \/ RacePage(i)

RaceSpec == RaceInit /\ [][RaceNext]_vars

----------------------------------------------------------------------------
(* Setting up and unloading config entries (SetupSpec): async_setup,       *)
(* async_setup_entry and async_unload_entry, called by Home Assistant in   *)
(* any order once the component is set up.                                 *)

\* how many config entries the domain has
MaxConfigEntries == 3

UnknownShelf == <<"U","n","k","n","o","w","n"," ","S","h","e","l","f">>

ConfigEntry(n, data) == [entry_id |-> <<"e", Digits[n + 1]>>, data |-> data]

\* the entries of the domain: each names its shelf or leaves it out
SetupEntries ==
    UNION { [1..n -> {[base_url |-> "url", shelf_name |-> DocsName],
                      [base_url |-> "url"]}] : n \in 1..MaxConfigEntries }

\* device_registry.async_get_or_create(config_entry_id=..., identifiers=...)
async_get_or_create(registry, config_entry_id, identifier) ==
    IF \E d \in 1..Len(registry) : registry[d].id = identifier
    THEN registry
    ELSE Append(registry, [id |-> identifier, area_id |-> "",
                           config_entry_id |-> config_entry_id])

\* identifiers: (DOMAIN, f"{entry_id}_{shelf_name}")
ShelfIdentifier(entry) ==
    entry.entry_id \o <<"_">> \o Get(entry.data, "shelf_name", UnknownShelf)

_create_shelf_device(registry, entry) ==
    async_get_or_create(registry, entry.entry_id, ShelfIdentifier(entry))

RECURSIVE _ensure_all_devices_exist(_, _)
_ensure_all_devices_exist(registry, entries) ==
    IF entries = <<>> THEN registry
    ELSE _ensure_all_devices_exist(_create_shelf_device(registry, Head(entries)),
                                   Tail(entries))

Returned(op, entry_id, val) ==
    [op |-> op, entry_id |-> entry_id, ok |-> TRUE, val |-> val, err |-> ""]

Threw(op, entry_id, err) ==
    [op |-> op, entry_id |-> entry_id, ok |-> FALSE, val |-> None, err |-> err]

\* `hass.data[DOMAIN][entry.entry_id] = entry`
async_setup_entry(data, entry) == Put(data, entry.entry_id, entry)

\* A mutant of async_unload_entry: every entry of the domain is dropped.
UnloadEveryEntry(data, entry) == <<>>

\* `hass.data[DOMAIN].pop(entry.entry_id)`
async_unload_entry(data, entry) ==
    [k \in DOMAIN data \ {entry.entry_id} |-> data[k]]

\* async_setup: hass.data.setdefault(DOMAIN, {}) and the shelf devices
AsyncSetup ==
    /\ hass_data = None
    /\ hass_data' = Some(<<>>)
    /\ device_registry' = _ensure_all_devices_exist(device_registry, config_entries)
    /\ returned' = Returned("async_setup", <<>>, Some(TRUE))
    /\ UNCHANGED <<remote_vars, client_vars, rate_vars, resp_vars,
                   config_entries, area_registry, states, flow, services,
                   race, pc, run, ex>>

\* async_setup_entry(hass, entry)
AsyncSetupEntry ==
    /\ hass_data # None
    /\ \E n \in 1..Len(config_entries) :
       \E entry \in {config_entries[n]} :
        /\ hass_data' = Some(async_setup_entry(hass_data[1], entry))
        /\ device_registry' = _create_shelf_device(device_registry, entry)
        /\ services' = services \cup {"export"}
        /\ returned' = Returned("async_setup_entry", entry.entry_id, Some(TRUE))
    /\ UNCHANGED <<remote_vars, client_vars, rate_vars, resp_vars,
                   config_entries, area_registry, states, flow, race, pc,
                   run, ex>>

\* async_unload_entry(hass, entry); dict.pop of a missing key raises KeyError
AsyncUnloadEntry ==
    /\ hass_data # None
    /\ \E n \in 1..Len(config_entries) :
       \E entry \in {config_entries[n]} :
        IF entry.entry_id \in DOMAIN hass_data[1]
        THEN /\ hass_data' = Some(async_unload_entry(hass_data[1], entry))
             /\ returned' = Returned("async_unload_entry", entry.entry_id,
                                     Some(TRUE))
        ELSE /\ hass_data' = hass_data
             /\ returned' = Threw("async_unload_entry", entry.entry_id,
                                  "KeyError")
    /\ UNCHANGED <<remote_vars, client_vars, rate_vars, resp_vars,
                   config_entries, area_registry, device_registry, states,
                   flow, services, race, pc, run, ex>>

SetupInit ==
    /\ focus = "setup"
    /\ flow = NoFlow
    /\ NoSetup
    /\ race = NoRace
    /\ RemoteClean
    /\ ClientNew
    /\ response = None
    /\ handled = None
    /\ \E datas \in SetupEntries :
        config_entries = [n \in 1..Len(datas) |-> ConfigEntry(n, datas[n])]
    /\ area_registry = <<>>
    /\ device_registry = <<>>
    /\ states = <<>>
    /\ pc = "idle"
    /\ run = 0
    /\ ex = NoLocals

SetupNext == AsyncSetup \/ AsyncSetupEntry \/ AsyncUnloadEntry

SetupSpec == SetupInit /\ [][SetupNext]_vars

----------------------------------------------------------------------------
(* Properties of the client's calls (Spec)                                 *)

\* the requests of the call with the given method
Sends(method) == SelectSeq(call.reqs, LAMBDA q : q.method = method)
NPosts == Len(Sends("POST"))
NPuts  == Len(Sends("PUT"))

\* the call sent a request and this was its last one
LastRequest == call.reqs[Len(call.reqs)]
AnsweredWith(status) ==
    /\ call.reqs # <<>>
    /\ LastRequest.net = "response"
    /\ LastRequest.status = status

\* two letters equal up to case, two strings equal up to case
SameLetter(a, b) ==
    \/ a = b
    \/ \E i \in 1..Len(UpperChars) :
          {a, b} = {UpperChars[i], LowerChars[i]}
EqualIgnoringCase(s, t) ==
    /\ Len(s) = Len(t)
    /\ \A i \in 1..Len(s) : SameLetter(s[i], t[i])

\* the entries the remote now holds under the name the call was about
Held == Matching(World(<<>>), call.target)

FindOrCreateOps ==
    {"find_or_create_shelf", "find_or_create_book", "find_or_create_areas_book",
     "find_or_create_chapter", "create_or_update_page"}

\* C1: a find-or-create call (shelf, book, Areas book, chapter, page) that
\* starts with neither the remote nor the cache holding the name, and returns,
\* has issued exactly one POST and leaves exactly one entry of that name;
\* the same call made again right after it issues no POST and still leaves
\* exactly one entry of that name.
C1_FindOrCreateIdempotent ==
    (call.op \in FindOrCreateOps /\ call.ok) =>
        /\ (call.before = 0 /\ ~call.cached) => (NPosts = 1 /\ Len(Held) = 1)
        /\ call.repeat => (NPosts = 0 /\ Len(Held) = 1)

\* C1 witness: create_or_update_page called again right after the call that
\* created the page: it updated it
C1_Witness ==
    /\ call.op = "create_or_update_page" /\ call.repeat /\ call.ok
    /\ NPuts = 1

FindOps == {"find_book", "find_shelf", "find_chapter", "find_page"}
CreateOps == {"create_book", "create_shelf", "create_chapter", "create_page"}

\* C6 (as claimed): when the request of a find, get_shelves or create
\* operation is answered 401 (429), the operation raises the authentication
\* (rate-limit) error type carrying that status code.
C6_TypedErrorReachesCaller ==
    \A s \in {401, 429} :
        (call.op \in FindOps \cup CreateOps \cup {"get_shelves"} /\ AnsweredWith(s))
            => /\ ~call.ok
               /\ call.err = Error(IF s = 401 THEN "BookStackAuthError"
                                   ELSE "BookStackRateLimitError", s)

\* C7: a find_chapter whose listing request is answered 404 returns None and
\* leaves the chapter cache as it was; answered any other status outside
\* 2xx, it raises.
C7_FindChapter404IsEmpty ==
    [][ (call'.op = "find_chapter" /\ call'.reqs # <<>>
            /\ call'.reqs[1].net = "response") =>
           /\ call'.reqs[1].status = 404 =>
                (call'.ok /\ call'.val = None /\ chapter_cache' = chapter_cache)
           /\ (call'.reqs[1].status # 404 /\ ~Is2xx(call'.reqs[1].status)) =>
                ~call'.ok
      ]_vars

\* C7 witness: find_chapter got a 404 although the book holds the chapter
C7_Witness ==
    /\ call.op = "find_chapter"
    /\ AnsweredWith(404)
    /\ Held # <<>>

\* C8: a find operation whose listing request succeeded returns the first
\* entry of the returned collection whose name equals the requested name
\* ignoring case, and None when there is no such entry.
C8_FindReturnsFirstMatch ==
    (call.op \in FindOps /\ (AnsweredWith(200) \/ AnsweredWith(201))) =>
        LET coll == Entities(Collection(World(<<>>), call.target))
            hits == {i \in 1..Len(coll) :
                        EqualIgnoringCase(coll[i].name, call.target.name)}
        IN  /\ call.ok
            /\ hits = {} => call.val = None
            /\ hits # {} =>
                 call.val = Some(coll[CHOOSE i \in hits : \A j \in hits : i <= j])

\* C8 witness: two entries match, in different case, and the one returned
\* is not spelled as requested
C8_Witness ==
    /\ call.op \in FindOps
    /\ AnsweredWith(200)
    /\ Len(Held) = 2
    /\ Held[1].name # Held[2].name
    /\ call.val # None
    /\ call.val[1].name # call.target.name

\* the page a create_or_update_page call returned, as the remote holds it
Written == pages[call.val[1].id]

\* C9 (as claimed): create_or_update_page issues one update and no create if
\* a page of that name exists in the chapter, else one create and no update;
\* afterwards the chapter holds exactly one page of that name, with the
\* given content.
C9_FullReplaceExactlyOne ==
    (call.op = "create_or_update_page" /\ call.ok) =>
        /\ call.before > 0 => (NPuts = 1 /\ NPosts = 0)
        /\ call.before = 0 => (NPosts = 1 /\ NPuts = 0)
        /\ Len(Held) = 1
        /\ Held[1].markdown = call.args[3]

\* C9 (amended): create_or_update_page issues one update and no create if
\* find_page yields a page (a cache entry under that name, else a page of that
\* name in the chapter), else one create and no update; afterwards the page
\* it wrote is in the chapter under the given name with exactly the given
\* content, and it is the only page of that name if the chapter held none
\* before the call.
C9_FullReplace ==
    (call.op = "create_or_update_page" /\ call.ok) =>
        /\ (call.cached \/ call.before > 0) => (NPuts = 1 /\ NPosts = 0)
        /\ ~(call.cached \/ call.before > 0) => (NPosts = 1 /\ NPuts = 0)
        /\ call.val # None
        /\ Written.chapter_id = call.args[1]
        /\ Written.name = call.args[2]
        /\ Written.markdown = call.args[3]
        /\ call.before = 0 => Len(Held) = 1

\* C9 witness: an existing page was overwritten with different content
C9_Witness ==
    /\ call.op = "create_or_update_page" /\ call.ok
    /\ call.before = 1
    /\ NPuts = 1
    /\ call.args[3] = "v2"
    /\ Len(Held) = 1

----------------------------------------------------------------------------
(* Properties of _handle_response (ResponseSpec)                           *)

\* C5 (as claimed): every 2xx status yields the parsed body without an
\* error; 401, 404 and 429 yield the authentication, not-found and rate-limit
\* errors; every other status yields the generic error carrying the status.
C5_Any2xxSucceeds ==
    response # None =>
        LET s == response[1]
            h == handled[1]
        IN  /\ Is2xx(s) => (h.ok /\ h.data = SomeBody /\ h.err = NoError)
            /\ s = 401 => (~h.ok /\ h.err = Error("BookStackAuthError", s))
            /\ s = 404 => (~h.ok /\ h.err = Error("BookStackNotFoundError", s))
            /\ s = 429 => (~h.ok /\ h.err = Error("BookStackRateLimitError", s))
            /\ (~Is2xx(s) /\ s \notin {401, 404, 429}) =>
                   (~h.ok /\ h.err = Error("BookStackError", s))

----------------------------------------------------------------------------
(* Properties of the pacing of requests (RateSpec)                         *)

\* C4 (as claimed): two consecutive requests of one client start at least
\* 500 ms apart, whatever became of the earlier one.
C4_MinGapBetweenRequests ==
    gap # None => gap[1] >= MinRequestInterval

----------------------------------------------------------------------------
(* Properties of the export (ExportSpec)                                   *)

Attempted(area_id) ==
    \E k \in 1..Len(ex.attempted) : ex.attempted[k] = area_id

\* the areas the loop had still to come to when the run failed at a chapter
\* or at a page
LaterAreas ==
    LET floors == ex.areas_by_floor
    IN  {floors[f].area_ids[a] :
            <<f, a>> \in {x \in (1..Len(floors)) \X (1..Len(area_registry)) :
                /\ Exported(ex.area_filter, floors[x[1]])
                /\ x[2] <= Len(floors[x[1]].area_ids)
                /\ \/ x[1] > ex.fi
                   \/ x[1] = ex.fi /\ x[2] > ex.ai /\ ex.failed_step = "page"}}

\* C2 (as claimed): when the chapter creation or the page write of one area
\* fails with an API error, the page write of every later area of the export
\* is still attempted.
C2_ExportContinuesAfterFailure ==
    (pc = "done" /\ ex.failed_step \in {"chapter", "page"}) =>
        \A area_id \in LaterAreas : Attempted(area_id)

\* the floors and areas an export with the locals e writes
ExportedFloors(e) ==
    LET floors == _map_areas_to_floors(area_registry)
    IN  {f \in 1..Len(floors) : Exported(e.area_filter, floors[f])}

ChaptersNamed(book_id, name) ==
    {c \in 1..Len(chapters) :
        chapters[c].book_id = book_id /\ chapters[c].name = name}
PagesTitled(chapter_id, title) ==
    {p \in 1..Len(pages) :
        pages[p].chapter_id = chapter_id /\ pages[p].name = title}

\* no two shelves, books, chapters of a book or pages of a chapter bear the
\* same name up to case
NoDuplicates ==
    /\ \A i, j \in 1..Len(shelves) :
          EqualIgnoringCase(shelves[i].name, shelves[j].name) => i = j
    /\ \A i, j \in 1..Len(books) :
          EqualIgnoringCase(books[i].name, books[j].name) => i = j
    /\ \A i, j \in 1..Len(chapters) :
          (/\ chapters[i].book_id = chapters[j].book_id
           /\ EqualIgnoringCase(chapters[i].name, chapters[j].name)) => i = j
    /\ \A i, j \in 1..Len(pages) :
          (/\ pages[i].chapter_id = pages[j].chapter_id
           /\ EqualIgnoringCase(pages[i].name, pages[j].name)) => i = j

----------------------------------------------------------------------------
(* Properties of the floor classifier (ClassifySpec)                       *)

FloorNames ==
    << <<"G","r","o","u","n","d"," ","F","l","o","o","r">>,
       <<"F","i","r","s","t"," ","F","l","o","o","r">>,
       <<"B","a","s","e","m","e","n","t">>,
       <<"A","t","t","i","c">>,
       <<"O","u","t","s","i","d","e">> >>

\* the ids listed under the bucket of the given name (none: no such bucket)
Bucket(floor_name) ==
    LET at == {f \in 1..Len(ex.areas_by_floor) :
                  ex.areas_by_floor[f].floor_name = floor_name}
    IN  UNION { {ex.areas_by_floor[f].area_ids[a] :
                    a \in 1..Len(ex.areas_by_floor[f].area_ids)} : f \in at }

\* a keyword of the n-th floor occurs in the lower-cased name
Matches(n, name) ==
    \E k \in 1..Len(floor_mapping[n].keywords) :
        \E at \in 0..(Len(name) - Len(floor_mapping[n].keywords[k])) :
            \A i \in 1..Len(floor_mapping[n].keywords[k]) :
                \E u \in 1..Len(UpperChars) :
                    \/ name[at + i] = floor_mapping[n].keywords[k][i]
                    \/ /\ name[at + i] = UpperChars[u]
                       /\ LowerChars[u] = floor_mapping[n].keywords[k][i]

\* C11: the classifier lists an area under the n-th of Ground Floor, First
\* Floor, Basement, Attic, Outside exactly when a keyword of that floor occurs
\* in the area's lower-cased name and no keyword of an earlier floor does;
\* Garage is under Ground Floor, Loft Office under First Floor; areas of the
\* same name are under the same buckets.
C11_FirstMatchingFloor ==
    ex.areas_by_floor # <<>> =>
    \A i \in 1..Len(ex.areas) :
        LET area == ex.areas[i]
        IN  /\ \A n \in 1..Len(FloorNames) :
                 area.id \in Bucket(FloorNames[n]) <=>
                    /\ Matches(n, area.name)
                    /\ \A m \in 1..(n - 1) : ~Matches(m, area.name)
            /\ area.name = GarageName => area.id \in Bucket(FloorNames[1])
            /\ area.name = LoftOfficeName => area.id \in Bucket(FloorNames[2])
            /\ \A j \in 1..Len(ex.areas) :
                 ex.areas[j].name = area.name =>
                    \A f \in 1..Len(ex.areas_by_floor) :
                       LET floor_name == ex.areas_by_floor[f].floor_name
                       IN  area.id \in Bucket(floor_name)
                              <=> ex.areas[j].id \in Bucket(floor_name)

\* C11 witness: Garage, Loft Office and an area of no floor classified together
C11_Witness ==
    /\ Len(ex.areas) = 3
    /\ \E i, j, k \in 1..3 :
          /\ ex.areas[i].name = GarageName
          /\ ex.areas[j].name = LoftOfficeName
          /\ ex.areas[k].name = DenName
    /\ "a1" \in Bucket(FloorNames[1]) \cup Bucket(FloorNames[2])

\* the places (bucket, position) at which the buckets list an id
Places(area_id) ==
    {x \in (1..Len(ex.areas_by_floor)) \X (1..Len(ex.areas)) :
        /\ x[2] <= Len(ex.areas_by_floor[x[1]].area_ids)
        /\ ex.areas_by_floor[x[1]].area_ids[x[2]] = area_id}

Unmatched(name) == \A n \in 1..Len(FloorNames) : ~Matches(n, name)

\* C12: the buckets partition the input: every area id is listed at exactly
\* one place, every bucket entry is the id of an input area, an area that
\* matches no keyword is under Other Areas, and the Other Areas bucket exists
\* exactly when some area matches no keyword.
C12_BucketsPartitionAreas ==
    ex.areas_by_floor # <<>> =>
        /\ \A i \in 1..Len(ex.areas) : Cardinality(Places(ex.areas[i].id)) = 1
        /\ \A f \in 1..Len(ex.areas_by_floor) :
             /\ Len(ex.areas_by_floor[f].area_ids) <= Len(ex.areas)
             /\ \A a \in 1..Len(ex.areas_by_floor[f].area_ids) :
                  \E i \in 1..Len(ex.areas) :
                     ex.areas[i].id = ex.areas_by_floor[f].area_ids[a]
        /\ \A i \in 1..Len(ex.areas) :
             Unmatched(ex.areas[i].name) => ex.areas[i].id \in Bucket(OtherAreas)
        /\ (\E f \in 1..Len(ex.areas_by_floor) :
                ex.areas_by_floor[f].floor_name = OtherAreas)
             <=> (\E i \in 1..Len(ex.areas) : Unmatched(ex.areas[i].name))

\* C12 witness: two areas of no floor and one of a floor, so that Other Areas
\* exists and lists two ids
C12_Witness ==
    /\ Len(ex.areas) = 3
    /\ Cardinality(Bucket(OtherAreas)) = 2
    /\ Bucket(FloorNames[5]) # {}

\* C13: with no area in the registry, no state of an export has sent a
\* request or holds a shelf, a book, a chapter or a page; the run ends
\* without entering its first executor job.
C13_NoAreasNoRequests ==
    area_registry = <<>> =>
        /\ call.reqs = <<>>
        /\ call.op = ""
        /\ shelves = <<>> /\ books = <<>> /\ chapters = <<>> /\ pages = <<>>
        /\ pc \in {"idle", "done"}

\* C13 witness: a configured export on an empty registry has ended
C13_Witness ==
    /\ area_registry = <<>>
    /\ config_entries # <<>>
    /\ pc = "done"
    /\ ex.result = "no_areas"

\* C14 (as claimed): a run that ends for want of areas or of a config entry
\* has logged an error and raised a notification for the user.
C14_AbortLogsAndNotifies ==
    (pc = "done" /\ ex.result \in {"no_areas", "no_config"}) =>
        /\ ex.log # <<>>
        /\ ex.notifications # <<>>

\* the bucket an area name belongs to, by the keywords
BucketNameOf(name) ==
    IF Unmatched(name) THEN OtherAreas
    ELSE FloorNames[CHOOSE n \in 1..Len(FloorNames) :
                        /\ Matches(n, name)
                        /\ \A m \in 1..(n - 1) : ~Matches(m, name)]

\* the names of the buckets that hold an area of the registry
NonEmptyBuckets ==
    {BucketNameOf(area_registry[i].name) : i \in 1..Len(area_registry)}

\* C15: when the first export of an installation, unfiltered, has completed,
\* the chapters of the Areas book are one chapter named after each bucket
\* that holds an area, and no other chapter.
C15_ChaptersAreNonEmptyBuckets ==
    (run = 1 /\ pc = "done" /\ ex.result = "completed" /\ ex.area_filter = <<>>) =>
        /\ \A c \in 1..Len(chapters) : chapters[c].book_id = ex.areas_book[1].id
        /\ {chapters[c].name : c \in 1..Len(chapters)} = NonEmptyBuckets
        /\ Len(chapters) = Cardinality(NonEmptyBuckets)
        /\ ex.created_chapters = Cardinality(NonEmptyBuckets)

\* C15 witness: three areas in two buckets, exported into two chapters
C15_Witness ==
    /\ run = 1 /\ pc = "done" /\ ex.result = "completed" /\ ex.area_filter = <<>>
    /\ Len(area_registry) = 3
    /\ Len(chapters) = 2

\* the devices (entities) of the registries that are in an area
DevicesIn(area_id) ==
    {device_registry[d] : d \in {d \in 1..Len(device_registry) :
                                    device_registry[d].area_id = area_id}}
EntitiesIn(area_id) ==
    {states[e] : e \in {e \in 1..Len(states) : states[e].area_id = area_id}}
Elements(seq) == {seq[i] : i \in 1..Len(seq)}

\* C16: when an unfiltered export has completed, every area has a page titled
\* "<area name> Overview" in a chapter named after the area's bucket, whose
\* content names the area and lists exactly the devices and the entities of
\* that area, with their counts; the run wrote as many pages as there are
\* areas, and after the first export the remote holds that many pages.
C16_OnePagePerArea ==
    (run >= 1 /\ pc = "done" /\ ex.result = "completed" /\ ex.area_filter = <<>>) =>
        /\ \A i \in 1..Len(area_registry) :
             LET area == area_registry[i]
             IN  \E p \in 1..Len(pages) :
                    /\ pages[p].name = area.name \o Overview
                    /\ chapters[pages[p].chapter_id].name = BucketNameOf(area.name)
                    /\ pages[p].markdown.area_name = area.name
                    /\ Elements(pages[p].markdown.devices) = DevicesIn(area.id)
                    /\ Elements(pages[p].markdown.entities) = EntitiesIn(area.id)
                    /\ pages[p].markdown.device_count = Cardinality(DevicesIn(area.id))
                    /\ pages[p].markdown.entity_count = Cardinality(EntitiesIn(area.id))
        /\ ex.created_pages = Len(area_registry)
        /\ Len(ex.attempted) = Len(area_registry)
        /\ run = 1 => Len(pages) = Len(area_registry)

\* C16 witness: three areas exported, the page of the den lists the den's
\* device and no entity
C16_Witness ==
    /\ run = 1 /\ pc = "done" /\ ex.result = "completed" /\ ex.area_filter = <<>>
    /\ Len(pages) = 3
    /\ \E p \in 1..3 :
          /\ pages[p].markdown.area_name = DenName
          /\ pages[p].markdown.device_count = 1
          /\ pages[p].markdown.entity_count = 0

\* the areas a run wrote a page for
ExportedAreaNames ==
    {AreaName(area_registry, ex.attempted[i]) : i \in 1..Len(ex.attempted)}

\* C17: when an export has completed, the areas it exported are the areas
\* whose own name contains the filter, compared case-insensitively, and every
\* area when no filter was given.
C17_FilterSelectsByAreaName ==
    (pc = "done" /\ ex.result = "completed") =>
        ExportedAreaNames =
            {area_registry[i].name : i \in
                {i \in 1..Len(area_registry) :
                    ex.area_filter # <<>> =>
                        Contains(Lower(ex.area_filter),
                                 Lower(area_registry[i].name))}}

----------------------------------------------------------------------------
(* Properties of the configuration wizard (FlowSpec)                       *)

LastTest(f) == f.tests[Len(f.tests)]

\* C18: a step of the flow that creates a config entry has run a connection
\* test that returned true, and a step whose connection test returned false
\* or raised creates no entry.
C18_EntryOnlyAfterTestTrue ==
    [][ /\ config_entries' # config_entries =>
            /\ Len(flow'.tests) = Len(flow.tests) + 1
            /\ LastTest(flow').result = "true"
        /\ (/\ Len(flow'.tests) = Len(flow.tests) + 1
            /\ LastTest(flow').result \in {"false", "raised"}) =>
                config_entries' = config_entries ]_vars

\* C18 witness: a first test raised and created nothing, the second returned
\* true and the entry was created
C18_Witness ==
    /\ Len(flow.tests) = 2
    /\ flow.tests[1].result = "raised"
    /\ flow.tests[2].result = "true"
    /\ Len(config_entries) = 1

\* C19: the form shown after a connection test that returned false carries
\* "auth_failed" when the request was answered 401, "timeout" when it timed
\* out, and "connection_failed" otherwise.
C19_FailureClassifiedByCause ==
    (/\ flow.step = "shelf_selection" /\ flow.form = "shelf_name"
     /\ flow.tests # <<>> /\ LastTest(flow).result = "false") =>
        flow.errors.base =
            IF LastTest(flow).status = 401 THEN "auth_failed"
            ELSE IF LastTest(flow).net = "lost" THEN "timeout"
            ELSE "connection_failed"

\* the characters of a text that are not blank
NonBlank(s) == SelectSeq(s, LAMBDA c : c # Blank)

\* the timeout of an input is an integer in 5..300 (30 when left out)
TimeoutInRange(ui) ==
    LET t == int(Get(ui, "timeout", [int |-> 30]))
    IN  t.ok /\ t.val \in 5..300

\* the gate of the base settings, for given tests of the url and the tokens:
\* once the base settings were submitted, either every test passed, the input
\* is stored and the flow is past the base-settings step, or the base-settings
\* form is shown with an error on exactly the fields that failed and nothing
\* is stored; and every entry created has a timeout in 5..300
Gate(UrlOk(_), TokenIdOk(_), TokenSecretOk(_)) ==
    /\ flow.user_input # None =>
        LET ui == flow.user_input[1]
            offending ==
                (IF UrlOk(ui.base_url) THEN {} ELSE {"base_url"})
                \cup (IF TokenIdOk(ui.token_id) THEN {} ELSE {"token_id"})
                \cup (IF TokenSecretOk(ui.token_secret) THEN {} ELSE {"token_secret"})
                \cup (IF TimeoutInRange(ui) THEN {} ELSE {"timeout"})
        IN  IF offending = {}
            THEN /\ flow.step # "user"
                 /\ flow.data # <<>>
                 /\ flow.data.token_id = ui.token_id
                 /\ flow.data.token_secret = ui.token_secret
                 /\ flow.data.timeout \in 5..300
            ELSE /\ flow.step = "user"
                 /\ DOMAIN flow.errors = offending
                 /\ flow.data = <<>>
    /\ \A e \in 1..Len(config_entries) : config_entries[e].data.timeout \in 5..300

\* C20 as stated: the url starts with http:// or https://, the token id has
\* at least 5 and the token secret at least 10 characters that are not blank
C20_GateAsStated ==
    Gate(LAMBDA u : StartsWith(u, HttpScheme) \/ StartsWith(u, HttpsScheme),
         LAMBDA t : Len(NonBlank(t)) >= 5,
         LAMBDA t : Len(NonBlank(t)) >= 10)

\* C20, amended: the url, its trailing slashes removed, starts with http://
\* or https://; the token id is at least 5 and the token secret at least 10
\* characters long once the blanks around it are removed (blanks inside
\* count); the timeout converts to an integer in 5..300.  Then the input is
\* stored and the flow moves on; otherwise the form is shown again with an
\* error on each offending field and nothing is stored.  Every entry created
\* has a timeout in 5..300.
C20_ValidationGate ==
    Gate(LAMBDA u : \E n \in 0..Len(u) :
                        /\ \A i \in (n + 1)..Len(u) : u[i] = "/"
                        /\ n > 0 => u[n] # "/"
                        /\ \/ StartsWith(SubSeq(u, 1, n), HttpScheme)
                           \/ StartsWith(SubSeq(u, 1, n), HttpsScheme),
         LAMBDA t : \E a \in 1..Len(t), b \in 1..Len(t) :
                        t[a] # Blank /\ t[b] # Blank /\ b - a + 1 >= 5,
         LAMBDA t : \E a \in 1..Len(t), b \in 1..Len(t) :
                        t[a] # Blank /\ t[b] # Blank /\ b - a + 1 >= 10)

\* C20 witness: base settings with a bad url and a timeout out of range were
\* rejected with both errors, and nothing was stored
C20_Witness ==
    /\ flow.step = "user"
    /\ flow.user_input # None
    /\ DOMAIN flow.errors = {"base_url", "timeout"}
    /\ flow.data = <<>>

\* C21: the form shown after a connection test that failed (the form that
\* carries the error of the test) has step id "user", the base settings.
C21_FailedTestReturnsToUser ==
    (flow.tests # <<>> /\ "base" \in DOMAIN flow.errors) => flow.step = "user"

----------------------------------------------------------------------------
(* Properties of test_connection (ProbeSpec)                               *)

\* C22: test_connection never raises; it returns true exactly when its
\* request was answered with a success status, and false for every error
\* status and every network failure.
C22_TestConnectionIsBoolean ==
    call.op = "test_connection" =>
        /\ call.ok
        /\ call.val = (/\ call.reqs[1].net \in {"response", "garbled"}
                       /\ Is2xx(call.reqs[1].status))

----------------------------------------------------------------------------
(* Properties of the client's caches (Spec)                                *)

\* C23: find_or_create_book called with a name that is the cached book's
\* name but for case, and find_or_create_chapter called with a book and a
\* name the chapter cache has an entry for but for case, return the cached
\* object and send no request.
C23_CacheHitSendsNothing ==
    (call.op \in {"find_or_create_book", "find_or_create_chapter"} /\ call.cached) =>
        /\ call.ok
        /\ call.reqs = <<>>
        /\ call.val =
            IF call.op = "find_or_create_book" THEN book_cache
            ELSE Some(chapter_cache[<<call.target.parent, Lower(call.target.name)>>])

\* C23 witness: a book found in the cache under a name written differently
C23_Witness ==
    /\ call.op = "find_or_create_book"
    /\ call.cached
    /\ call.val # None
    /\ call.val[1].name # call.target.name
    /\ call.reqs = <<>>

\* C24: when the client is constructed its three caches are empty; a
\* clear_cache call, whatever the caches hold, leaves the three empty, sends
\* no request and leaves the time of the last request as it was.
C24_ClearCacheEmptiesCaches ==
    /\ (book_cache = None /\ chapter_cache = <<>> /\ page_cache = <<>>)
    /\ [][ (call'.op = "clear_cache" /\ call.op # "clear_cache") =>
            /\ book_cache' = None
            /\ chapter_cache' = <<>>
            /\ page_cache' = <<>>
            /\ call'.reqs = <<>>
            /\ last_request_time' = last_request_time
            /\ remote_vars' = remote_vars ]_vars

\* C24 witness: clear_cache emptied a chapter cache that held an entry
C24_Witness ==
    /\ call.op = "clear_cache"
    /\ last.op = "find_or_create_chapter"
    /\ chapter_cache = <<>>

----------------------------------------------------------------------------
(* More properties of the export (ExportSpec)                              *)

\* the first area of the registry that belongs to the bucket
FirstAreaOf(bucket) ==
    area_registry[CHOOSE i \in 1..Len(area_registry) :
        /\ BucketNameOf(area_registry[i].name) = bucket
        /\ \A j \in 1..(i - 1) : BucketNameOf(area_registry[j].name) # bucket]

\* C25: the description of the chapter the first export creates for a bucket
\* carries the number of devices and the number of entities of the bucket's
\* first area.
C25_ChapterDescriptionCounts ==
    run = 1 =>
        \A c \in 1..Len(chapters) :
            /\ chapters[c].description.device_count =
                   Cardinality(DevicesIn(FirstAreaOf(chapters[c].name).id))
            /\ chapters[c].description.entity_count =
                   Cardinality(EntitiesIn(FirstAreaOf(chapters[c].name).id))

\* the requests of the step just made that got no response
Failed(i) == call.reqs[i].net # "response"

\* C26: a request of an export step that is refused or times out is the last
\* request of its operation; the operation raises BookStackError with no
\* status code and the run ends there with the error caught, except for
\* assign_book_to_shelf, which reports False and lets the run go on; nothing
\* is sent again.
C26_NetworkFailureNotRetried ==
    \A i \in 1..Len(call.reqs) :
        Failed(i) =>
            /\ i = Len(call.reqs)
            /\ IF call.op = "assign_book_to_shelf"
               THEN call.ok /\ call.val = Some(FALSE) /\ pc # "assign"
               ELSE /\ ~call.ok
                    /\ call.err = Error("BookStackError", NoStatusCode)
                    /\ pc = "done"
                    /\ ex.result = "api_error"

\* C26 witness: the creation of a page timed out after the page was looked
\* for, and the run ended
C26_Witness ==
    /\ call.op = "create_area_page"
    /\ Len(call.reqs) = 2
    /\ call.reqs[2].net = "lost"
    /\ pc = "done"
    /\ ex.result = "api_error"

\* the operation of each step of handle_export
OperationAt(p) ==
    CASE p = "shelf"   -> "find_or_create_shelf"
      [] p = "book"    -> "find_or_create_areas_book"
      [] p = "assign"  -> "assign_book_to_shelf"
      [] p = "chapter" -> "create_area_chapter"
      [] p = "page"    -> "create_area_page"

\* the steps that may follow a step
After(p) ==
    CASE p = "shelf"   -> {"book", "done"}
      [] p = "book"    -> {"assign", "done"}
      [] p = "assign"  -> {"chapter", "done"}
      [] p = "chapter" -> {"page", "done"}
      [] p = "page"    -> {"page", "chapter", "done"}

----------------------------------------------------------------------------
(* Termination of the export (ExportLiveSpec)                              *)

\* how far a run is: the step, then the bucket and the area within it
Rank(p) ==
    CASE p = "idle"    -> 0
      [] p = "shelf"   -> 1
      [] p = "book"    -> 2
      [] p = "assign"  -> 3
      [] p = "chapter" -> 4
      [] p = "page"    -> 4
      [] p = "done"    -> 5

\* C28: every run that has started reaches its end; every step of a run moves
\* it forward (to a later step, a later bucket, or a later area of the same
\* bucket), a step sends at most two requests, and a run creates at most one
\* chapter per bucket that holds an area and writes at most one page per
\* area.
C28_ExportTerminates ==
    /\ (pc \notin {"idle", "done"}) ~> (pc = "done")
    /\ [][ (pc \notin {"idle", "done"}) =>
              \/ Rank(pc') > Rank(pc)
              \/ /\ Rank(pc') = Rank(pc)
                 /\ \/ ex'.fi > ex.fi
                    \/ ex'.fi = ex.fi /\ ex'.ai > ex.ai ]_vars
    /\ [](/\ Len(call.reqs) <= 2
          /\ ex.created_chapters <= Cardinality(NonEmptyBuckets)
          /\ Len(ex.attempted) <= Len(area_registry))

\* C28 witness: a run over three areas in two buckets reached its summary
C28_Witness ==
    /\ pc = "done"
    /\ ex.result = "completed"
    /\ ex.created_chapters = 2
    /\ Len(ex.attempted) = 3

----------------------------------------------------------------------------
(* Two exports at once (RaceSpec)                                          *)

\* the entries of a collection of the remote bearing a name
Named(items, name) == {k \in 1..Len(items) : items[k].name = name}

\* C29: whatever the order in which the requests of two concurrent exports
\* reach a clean remote, the remote holds at most one shelf of the
\* configured name, at most one book "Areas" and, in a book, at most one
\* chapter of a name.
C29_NoDuplicates ==
    /\ \A name \in {shelves[k].name : k \in 1..Len(shelves)} :
            Cardinality(Named(shelves, name)) <= 1
    /\ Cardinality(Named(books, AreasName)) <= 1
    /\ \A c, d \in 1..Len(chapters) :
            (chapters[c].book_id = chapters[d].book_id
             /\ chapters[c].name = chapters[d].name) => c = d

----------------------------------------------------------------------------
(* Config entries set up and unloaded (SetupSpec)                          *)

\* hass.data[DOMAIN]
DomainData == hass_data[1]

\* the config entry a handler was called with
EntryOf(entry_id) ==
    config_entries[CHOOSE n \in 1..Len(config_entries) :
                       config_entries[n].entry_id = entry_id]

\* C30: async_setup leaves hass.data[DOMAIN] empty; from then on each
\* async_setup_entry adds the entry under its id and each async_unload_entry
\* of an entry held there returns True and removes that entry, and neither
\* touches the record of any other entry: hass.data[DOMAIN] holds exactly the
\* entries set up and not unloaded since.
C30_DataTracksEntries ==
    /\ hass_data = None
    /\ [][ /\ returned'.op = "async_setup" => hass_data' = Some(<<>>)
           /\ returned'.op = "async_setup_entry" =>
                /\ DOMAIN DomainData' = DOMAIN DomainData \cup {returned'.entry_id}
                /\ DomainData'[returned'.entry_id] = EntryOf(returned'.entry_id)
                /\ \A k \in DOMAIN DomainData \ {returned'.entry_id} :
                        DomainData'[k] = DomainData[k]
           /\ (returned'.op = "async_unload_entry"
               /\ returned'.entry_id \in DOMAIN DomainData) =>
                /\ returned'.val = Some(TRUE)
                /\ DOMAIN DomainData' = DOMAIN DomainData \ {returned'.entry_id}
                /\ \A k \in DOMAIN DomainData' : DomainData'[k] = DomainData[k]
           /\ (returned'.op = "async_unload_entry"
               /\ returned'.entry_id \notin DOMAIN DomainData) =>
                hass_data' = hass_data ]_vars

\* C30 witness: an entry was unloaded while another one stays set up
C30_Witness ==
    /\ returned.op = "async_unload_entry"
    /\ returned.val = Some(TRUE)
    /\ hass_data # None
    /\ DOMAIN DomainData # {}

====
